---- MODULE Spec2Model ----
(***************************************************************************)
(* The XBDM protocol engine of src/emulator.py: the command lexer          *)
(* (XBDMShlex, XBDMCommand.parse), the value decoding of XBDMParam, and    *)
(* the per-connection session state machine XBDMServerProtocol.            *)
(*                                                                         *)
(* A byte is an integer 0..255 and a byte string (Python bytes, and a str  *)
(* of ASCII text) is a sequence of bytes.  Python's None is the record     *)
(* None; an optional string is Some(s).                                    *)
(***************************************************************************)
EXTENDS Integers, Sequences, FiniteSets, TLC

\* replies written by the handlers (src/emulator.py:422-930)
\* '201- connected'
R_connected == <<50, 48, 49, 45, 32, 99, 111, 110, 110, 101, 99, 116, 101, 100>>
\* '200- bye'
R_bye == <<50, 48, 48, 45, 32, 98, 121, 101>>
\* '204- send binary data'
R_send_binary == <<50, 48, 52, 45, 32, 115, 101, 110, 100, 32, 98, 105, 110, 97, 114, 121, 32, 100, 97, 116, 97>>
\* '203- binary response follows'
R_binary_follows == <<50, 48, 51, 45, 32, 98, 105, 110, 97, 114, 121, 32, 114, 101, 115, 112, 111, 110, 115, 101, 32, 102, 111, 108, 108, 111, 119, 115>>
\* '200- OK'
R_ok == <<50, 48, 48, 45, 32, 79, 75>>
\* '420- box is not locked'
R_boxid == <<52, 50, 48, 45, 32, 98, 111, 120, 32, 105, 115, 32, 110, 111, 116, 32, 108, 111, 99, 107, 101, 100>>
\* '402- file not found'
R_getuserpriv == <<52, 48, 50, 45, 32, 102, 105, 108, 101, 32, 110, 111, 116, 32, 102, 111, 117, 110, 100>>

\* verbs matched by data_received (src/emulator.py:445-907)
\* 'bye'
V_bye == <<98, 121, 101>>
\* 'sendfile'
V_sendfile == <<115, 101, 110, 100, 102, 105, 108, 101>>
\* 'sendvfile'
V_sendvfile == <<115, 101, 110, 100, 118, 102, 105, 108, 101>>
\* 'xbupdate!sysfileupd'
V_sysfileupd == <<120, 98, 117, 112, 100, 97, 116, 101, 33, 115, 121, 115, 102, 105, 108, 101, 117, 112, 100>>
\* 'boxid'
V_boxid == <<98, 111, 120, 105, 100>>
\* 'recovery'
V_recovery == <<114, 101, 99, 111, 118, 101, 114, 121>>
\* 'keyxchg'
V_keyxchg == <<107, 101, 121, 120, 99, 104, 103>>
\* 'setfileattributes'
V_setfileattributes == <<115, 101, 116, 102, 105, 108, 101, 97, 116, 116, 114, 105, 98, 117, 116, 101, 115>>
\* 'getuserpriv'
V_getuserpriv == <<103, 101, 116, 117, 115, 101, 114, 112, 114, 105, 118>>

\* parameter keys read by the handlers
\* 'name'
K_name == <<110, 97, 109, 101>>
\* 'length'
K_length == <<108, 101, 110, 103, 116, 104>>
\* 'count'
K_count == <<99, 111, 117, 110, 116>>
\* 'size'
K_size == <<115, 105, 122, 101>>
\* 'crc'
K_crc == <<99, 114, 99>>
\* 'remove'
K_remove == <<114, 101, 109, 111, 118, 101>>
\* 'removedir'
K_removedir == <<114, 101, 109, 111, 118, 101, 100, 105, 114>>

\* other string constants of the source
\* '<CR><LF>'
CRLF == <<13, 10>>
\* '0x'
S_0x == <<48, 120>>
\* 'None'
S_None == <<78, 111, 110, 101>>
\* 'true'
S_true == <<116, 114, 117, 101>>
\* '1'
S_1 == <<49>>
\* ':\\'
S_colon_bslash == <<58, 92>>
\* '\\Device\\'
S_Device == <<92, 68, 101, 118, 105, 99, 101, 92>>
\* 'DEVICES'
XBDM_DIR == <<68, 69, 86, 73, 67, 69, 83>>
\* 'DEVICES/Harddisk0/Partition1/'
LOCAL_DIR == <<68, 69, 86, 73, 67, 69, 83, 47, 72, 97, 114, 100, 100, 105, 115, 107, 48, 47, 80, 97, 114, 116, 105, 116, 105, 111, 110, 49, 47>>

\* bytes.fromhex("020405B40103030801010402") (src/emulator.py:910)
HANDSHAKE == <<2, 4, 5, 180, 1, 3, 3, 8, 1, 1, 4, 2>>
\* The text of the client scripts.
\* sendfile NAME="E:\f
C_sendfile_pre == <<115, 101, 110, 100, 102, 105, 108, 101, 32, 78, 65, 77, 69, 61, 34, 69, 58, 92, 102>>
\* " LENGTH=0x
C_length_pre == <<34, 32, 76, 69, 78, 71, 84, 72, 61, 48, 120>>
\* xbupdate!sysfileupd name="\Device\Flash\u
C_sysfileupd_pre == <<120, 98, 117, 112, 100, 97, 116, 101, 33, 115, 121, 115, 102, 105, 108, 101, 117, 112, 100, 32, 110, 97, 109, 101, 61, 34, 92, 68, 101, 118, 105, 99, 101, 92, 70, 108, 97, 115, 104, 92, 117>>
\* " size=0x
C_size_pre == <<34, 32, 115, 105, 122, 101, 61, 48, 120>>
\*  crc=0x0
C_crc == <<32, 99, 114, 99, 61, 48, 120, 48>>
\* SendVFile COUNT=
C_sendvfile_pre == <<83, 101, 110, 100, 86, 70, 105, 108, 101, 32, 67, 79, 85, 78, 84, 61>>
\* BoxID
C_boxid == <<66, 111, 120, 73, 68>>
\* bye
C_bye == <<98, 121, 101>>
\* ByE
C_bye_mixed == <<66, 121, 69>>
\* E:\f
N_sendfile_pre == <<69, 58, 92, 102>>
\* \Device\Flash\u
N_sysfileupd_pre == <<92, 68, 101, 118, 105, 99, 101, 92, 70, 108, 97, 115, 104, 92, 117>>
\* E:\v
N_vfile_pre == <<69, 58, 92, 118>>
\* replies and verbs of the file and listing commands (src/emulator.py:393-909)
\* '202- multiline response follows'
R_multiline == <<50, 48, 50, 45, 32, 109, 117, 108, 116, 105, 108, 105, 110, 101, 32, 114, 101, 115, 112, 111, 110, 115, 101, 32, 102, 111, 108, 108, 111, 119, 115>>
\* '.'
R_dot == <<46>>
\* '402- directory not found'
R_dir_not_found == <<52, 48, 50, 45, 32, 100, 105, 114, 101, 99, 116, 111, 114, 121, 32, 110, 111, 116, 32, 102, 111, 117, 110, 100>>
\* '402- file not found'
R_file_not_found == <<52, 48, 50, 45, 32, 102, 105, 108, 101, 32, 110, 111, 116, 32, 102, 111, 117, 110, 100>>
\* 'name="John" read write control config manage'
R_userlist == <<110, 97, 109, 101, 61, 34, 74, 111, 104, 110, 34, 32, 114, 101, 97, 100, 32, 119, 114, 105, 116, 101, 32, 99, 111, 110, 116, 114, 111, 108, 32, 99, 111, 110, 102, 105, 103, 32, 109, 97, 110, 97, 103, 101>>
\* ' sizehi=0x0 sizelo=0x0 createhi=0x01d3c0d2 createlo=0x40667d00 changehi=0x01d3c0d2 changelo=0x40667d00 directory'
R_dir_attrs == <<32, 115, 105, 122, 101, 104, 105, 61, 48, 120, 48, 32, 115, 105, 122, 101, 108, 111, 61, 48, 120, 48, 32, 99, 114, 101, 97, 116, 101, 104, 105, 61, 48, 120, 48, 49, 100, 51, 99, 48, 100, 50, 32, 99, 114, 101, 97, 116, 101, 108, 111, 61, 48, 120, 52, 48, 54, 54, 55, 100, 48, 48, 32, 99, 104, 97, 110, 103, 101, 104, 105, 61, 48, 120, 48, 49, 100, 51, 99, 48, 100, 50, 32, 99, 104, 97, 110, 103, 101, 108, 111, 61, 48, 120, 52, 48, 54, 54, 55, 100, 48, 48, 32, 100, 105, 114, 101, 99, 116, 111, 114, 121>>
\* 'drivename="'
R_drivename == <<100, 114, 105, 118, 101, 110, 97, 109, 101, 61, 34>>
\* 'getfile'
V_getfile == <<103, 101, 116, 102, 105, 108, 101>>
\* 'mkdir'
V_mkdir == <<109, 107, 100, 105, 114>>
\* 'rename'
V_rename == <<114, 101, 110, 97, 109, 101>>
\* 'delete'
V_delete == <<100, 101, 108, 101, 116, 101>>
\* 'dirlist'
V_dirlist == <<100, 105, 114, 108, 105, 115, 116>>
\* 'getfileattributes'
V_getfileattributes == <<103, 101, 116, 102, 105, 108, 101, 97, 116, 116, 114, 105, 98, 117, 116, 101, 115>>
\* 'drivelist'
V_drivelist == <<100, 114, 105, 118, 101, 108, 105, 115, 116>>
\* 'systeminfo'
V_systeminfo == <<115, 121, 115, 116, 101, 109, 105, 110, 102, 111>>
\* 'modules'
V_modules == <<109, 111, 100, 117, 108, 101, 115>>
\* 'drivefreespace'
V_drivefreespace == <<100, 114, 105, 118, 101, 102, 114, 101, 101, 115, 112, 97, 99, 101>>
\* 'userlist'
V_userlist == <<117, 115, 101, 114, 108, 105, 115, 116>>
\* 'magicboot'
V_magicboot == <<109, 97, 103, 105, 99, 98, 111, 111, 116>>
\* 'newname'
K_newname == <<110, 101, 119, 110, 97, 109, 101>>
\* 'dir'
K_dir == <<100, 105, 114>>
\* 'title'
K_title == <<116, 105, 116, 108, 101>>
\* 'directory'
K_directory == <<100, 105, 114, 101, 99, 116, 111, 114, 121>>
\* the keys of a file's attribute line: 'sizehi', 'sizelo', 'createhi', 'createlo', 'changehi', 'changelo'
AttrKeys ==
  <<<<115, 105, 122, 101, 104, 105>>,
    <<115, 105, 122, 101, 108, 111>>,
    <<99, 114, 101, 97, 116, 101, 104, 105>>,
    <<99, 114, 101, 97, 116, 101, 108, 111>>,
    <<99, 104, 97, 110, 103, 101, 104, 105>>,
    <<99, 104, 97, 110, 103, 101, 108, 111>>>>
\* the keys of a module line: 'name', 'base', 'size', 'check', 'timestamp', 'pdata', 'psize', 'thread', 'osize'
ModuleKeys ==
  <<<<110, 97, 109, 101>>,
    <<98, 97, 115, 101>>,
    <<115, 105, 122, 101>>,
    <<99, 104, 101, 99, 107>>,
    <<116, 105, 109, 101, 115, 116, 97, 109, 112>>,
    <<112, 100, 97, 116, 97>>,
    <<112, 115, 105, 122, 101>>,
    <<116, 104, 114, 101, 97, 100>>,
    <<111, 115, 105, 122, 101>>>>
\* the keys of the drivefreespace line: 'freetocallerlo', 'freetocallerhi', 'totalbyteslo', 'totalbyteshi', 'totalfreebyteslo', 'totalfreebyteshi'
FreeSpaceKeys ==
  <<<<102, 114, 101, 101, 116, 111, 99, 97, 108, 108, 101, 114, 108, 111>>,
    <<102, 114, 101, 101, 116, 111, 99, 97, 108, 108, 101, 114, 104, 105>>,
    <<116, 111, 116, 97, 108, 98, 121, 116, 101, 115, 108, 111>>,
    <<116, 111, 116, 97, 108, 98, 121, 116, 101, 115, 104, 105>>,
    <<116, 111, 116, 97, 108, 102, 114, 101, 101, 98, 121, 116, 101, 115, 108, 111>>,
    <<116, 111, 116, 97, 108, 102, 114, 101, 101, 98, 121, 116, 101, 115, 104, 105>>>>
\* the words of the systeminfo lines: 'HDD=', 'Enabled', 'Disabled', 'Type=', 'Platform=', ' System=', 'BaseKrnl=', ' Krnl=', ' XDK='
SysInfoWords ==
  <<<<72, 68, 68, 61>>,
    <<69, 110, 97, 98, 108, 101, 100>>,
    <<68, 105, 115, 97, 98, 108, 101, 100>>,
    <<84, 121, 112, 101, 61>>,
    <<80, 108, 97, 116, 102, 111, 114, 109, 61>>,
    <<32, 83, 121, 115, 116, 101, 109, 61>>,
    <<66, 97, 115, 101, 75, 114, 110, 108, 61>>,
    <<32, 75, 114, 110, 108, 61>>,
    <<32, 88, 68, 75, 61>>>>
\* the replies that the protocol description gives to an unknown command,
\* a malformed line and a missing file
\* '405- unknown command'
UNKNOWN_COMMAND == <<52, 48, 53, 45, 32, 117, 110, 107, 110, 111, 119, 110, 32, 99, 111, 109, 109, 97, 110, 100>>
\* '405'
STATUS_405 == <<52, 48, 53>>
\* '402'
STATUS_402 == <<52, 48, 50>>
\* words of the client library (src/xbdm_common.py:20, 765-899)
\* 'SENDFILE'
Q_SENDFILE == <<83, 69, 78, 68, 70, 73, 76, 69>>
\* 'GETFILE'
Q_GETFILE == <<71, 69, 84, 70, 73, 76, 69>>
\* 'NAME'
Q_NAME == <<78, 65, 77, 69>>
\* 'NEWNAME'
Q_NEWNAME == <<78, 69, 87, 78, 65, 77, 69>>
\* 'LENGTH'
Q_LENGTH == <<76, 69, 78, 71, 84, 72>>
\* 'cold'
Q_cold == <<99, 111, 108, 100>>
\* 'BYE\r\n'
XBDM_BYE == <<66, 89, 69, 13, 10>>
\* verbs and replies of the xbupdate!* commands (src/emulator.py:449-525)
\* 'xbupdate!drawtext'
V_drawtext == <<120, 98, 117, 112, 100, 97, 116, 101, 33, 100, 114, 97, 119, 116, 101, 120, 116>>
\* 'xbupdate!version'
V_version == <<120, 98, 117, 112, 100, 97, 116, 101, 33, 118, 101, 114, 115, 105, 111, 110>>
\* 'xbupdate!validatehddpartitions'
V_validatehddpartitions == <<120, 98, 117, 112, 100, 97, 116, 101, 33, 118, 97, 108, 105, 100, 97, 116, 101, 104, 100, 100, 112, 97, 114, 116, 105, 116, 105, 111, 110, 115>>
\* 'xbupdate!isflashclean'
V_isflashclean == <<120, 98, 117, 112, 100, 97, 116, 101, 33, 105, 115, 102, 108, 97, 115, 104, 99, 108, 101, 97, 110>>
\* 'xbupdate!instrecoverytype'
V_instrecoverytype == <<120, 98, 117, 112, 100, 97, 116, 101, 33, 105, 110, 115, 116, 114, 101, 99, 111, 118, 101, 114, 121, 116, 121, 112, 101>>
\* 'xbupdate!configure'
V_configure == <<120, 98, 117, 112, 100, 97, 116, 101, 33, 99, 111, 110, 102, 105, 103, 117, 114, 101>>
\* 'xbupdate!validdevice'
V_validdevice == <<120, 98, 117, 112, 100, 97, 116, 101, 33, 118, 97, 108, 105, 100, 100, 101, 118, 105, 99, 101>>
\* 'xbupdate!recovery'
V_xbrecovery == <<120, 98, 117, 112, 100, 97, 116, 101, 33, 114, 101, 99, 111, 118, 101, 114, 121>>
\* 'xbupdate!flash'
V_flash == <<120, 98, 117, 112, 100, 97, 116, 101, 33, 102, 108, 97, 115, 104>>
\* 'xbupdate!commitsysextramdisk'
V_commitsysextramdisk == <<120, 98, 117, 112, 100, 97, 116, 101, 33, 99, 111, 109, 109, 105, 116, 115, 121, 115, 101, 120, 116, 114, 97, 109, 100, 105, 115, 107>>
\* 'xbupdate!getregion'
V_getregion == <<120, 98, 117, 112, 100, 97, 116, 101, 33, 103, 101, 116, 114, 101, 103, 105, 111, 110>>
\* 'xbupdate!setxamfeaturemask'
V_setxamfeaturemask == <<120, 98, 117, 112, 100, 97, 116, 101, 33, 115, 101, 116, 120, 97, 109, 102, 101, 97, 116, 117, 114, 101, 109, 97, 115, 107>>
\* 'xbupdate!close'
V_close == <<120, 98, 117, 112, 100, 97, 116, 101, 33, 99, 108, 111, 115, 101>>
\* 'xbupdate!finish'
V_finish == <<120, 98, 117, 112, 100, 97, 116, 101, 33, 102, 105, 110, 105, 115, 104>>
\* 'xbupdate!restart'
V_restart == <<120, 98, 117, 112, 100, 97, 116, 101, 33, 114, 101, 115, 116, 97, 114, 116>>
\* '200- verhi=0x20000 verlo=0x53080012 platform=wi basesysversion=0x20445100 cursysversion=0x20445100 recstate=0x1'
R_version == <<50, 48, 48, 45, 32, 118, 101, 114, 104, 105, 61, 48, 120, 50, 48, 48, 48, 48, 32, 118, 101, 114, 108, 111, 61, 48, 120, 53, 51, 48, 56, 48, 48, 49, 50, 32, 112, 108, 97, 116, 102, 111, 114, 109, 61, 119, 105, 32, 98, 97, 115, 101, 115, 121, 115, 118, 101, 114, 115, 105, 111, 110, 61, 48, 120, 50, 48, 52, 52, 53, 49, 48, 48, 32, 99, 117, 114, 115, 121, 115, 118, 101, 114, 115, 105, 111, 110, 61, 48, 120, 50, 48, 52, 52, 53, 49, 48, 48, 32, 114, 101, 99, 115, 116, 97, 116, 101, 61, 48, 120, 49>>
\* 'recoverytype=5 hresult=0x00000491'
R_instrecoverytype == <<114, 101, 99, 111, 118, 101, 114, 121, 116, 121, 112, 101, 61, 53, 32, 104, 114, 101, 115, 117, 108, 116, 61, 48, 120, 48, 48, 48, 48, 48, 52, 57, 49>>
\* '200- valid=1 deviceindex=1'
R_validdevice == <<50, 48, 48, 45, 32, 118, 97, 108, 105, 100, 61, 49, 32, 100, 101, 118, 105, 99, 101, 105, 110, 100, 101, 120, 61, 49>>
\* '200- result=0x10000000'
R_commitsysextramdisk == <<50, 48, 48, 45, 32, 114, 101, 115, 117, 108, 116, 61, 48, 120, 49, 48, 48, 48, 48, 48, 48, 48>>
\* '200- region=0xFF'
R_getregion == <<50, 48, 48, 45, 32, 114, 101, 103, 105, 111, 110, 61, 48, 120, 70, 70>>
\* '200-  '
R_restart == <<50, 48, 48, 45, 32, 32>>

----------------------------------------------------------------------------
\* Byte-string helpers (Python str/bytes methods used by the source).

None == [some |-> FALSE, v |-> <<>>]
Some(s) == [some |-> TRUE, v |-> s]

Min(a, b) == IF a < b THEN a ELSE b
Max(a, b) == IF a > b THEN a ELSE b

\* s[:n] and s[n:] with Python's clamping of the slice bounds (n >= 0).
Take(s, n) == SubSeq(s, 1, Min(n, Len(s)))
Drop(s, n) == SubSeq(s, Min(n, Len(s)) + 1, Len(s))

\* str.startswith / bytes.endswith
startswith(s, p) == Len(s) >= Len(p) /\ SubSeq(s, 1, Len(p)) = p
endswith(s, p) == Len(s) >= Len(p) /\ SubSeq(s, Len(s) - Len(p) + 1, Len(s)) = p

\* str.lower() on ASCII text.
LowerChar(ch) == IF ch \in 65..90 THEN ch + 32 ELSE ch
lower(s) == [i \in 1..Len(s) |-> LowerChar(s[i])]

\* The ASCII characters str.rstrip() removes.
StripChars == (9..13) \cup (28..32)

RECURSIVE rstrip(_)
rstrip(s) ==
  IF s # <<>> /\ s[Len(s)] \in StripChars THEN rstrip(SubSeq(s, 1, Len(s) - 1)) ELSE s

\* The least index j >= i of s with s[j] in the set S, or 0.
FirstIn(s, i, S) ==
  LET J == {j \in i..Len(s) : s[j] \in S}
  IN IF J = {} THEN 0 ELSE CHOOSE j \in J : \A k \in J : j <= k

\* The least index j >= i of s with s[j] not in the set S, or 0.
FirstNotIn(s, i, S) ==
  LET J == {j \in i..Len(s) : s[j] \notin S}
  IN IF J = {} THEN 0 ELSE CHOOSE j \in J : \A k \in J : j <= k

\* Index of the first occurrence of byte b in s at or after i, or 0.
IndexFrom(s, b, i) == FirstIn(s, i, {b})

\* Index of the first occurrence of the string old in s, or 0.
Find(s, old) ==
  LET J == {j \in 1..(Len(s) - Len(old) + 1) : SubSeq(s, j, j + Len(old) - 1) = old}
  IN IF J = {} THEN 0 ELSE CHOOSE j \in J : \A k \in J : j <= k

\* str.replace(old, new) for a non-empty old.
RECURSIVE replace(_, _, _)
replace(s, old, new) ==
  LET j == Find(s, old)
  IN IF j = 0 THEN s
     ELSE SubSeq(s, 1, j - 1) \o new \o replace(Drop(s, j + Len(old) - 1), old, new)

\* bytes.decode("utf8") succeeds on the byte strings of this model exactly
\* when every byte is ASCII: the only non-ASCII byte the model sends is the
\* 0xB4 of the handshake, a continuation byte that no lead byte precedes.
DecodeOk(raw) == \A i \in 1..Len(raw) : raw[i] < 128

\* format_command(command) with lowercase = False.
format_command(raw) == rstrip(raw)

----------------------------------------------------------------------------
\* XBDMShlex: shlex in POSIX mode with whitespace_split, no escape character,
\* the default quotes ' and ", and the default comment character #.

ShWhitespace == {32, 9, 13, 10}
ShQuotes == {39, 34}
ShCommenters == {35}

\* instream.readline(): the index after the next line feed.
AfterLine(s, i) == LET n == IndexFrom(s, 10, i) IN IF n = 0 THEN Len(s) + 1 ELSE n + 1

\* shlex.read_token from index i in lexer state st: 0 is the state ' ', 1 the
\* state 'a', and a quote character the state inside that quote.  Returns
\* the next index, the token, whether the token is None (end of input) and
\* whether ValueError("No closing quotation") was raised.  The characters
\* that leave the lexer state as it is are taken in one step.
RECURSIVE read_token(_, _, _, _, _)
read_token(s, i, st, tok, quoted) ==
  IF st = 0 THEN
    LET j == FirstNotIn(s, i, ShWhitespace) IN
    IF j = 0
    THEN [i |-> Len(s) + 1, tok |-> tok, none |-> (~quoted /\ tok = <<>>), err |-> FALSE]
    ELSE IF s[j] \in ShCommenters THEN read_token(s, AfterLine(s, j + 1), 0, tok, quoted)
    ELSE IF s[j] \in ShQuotes THEN read_token(s, j + 1, s[j], tok, quoted)
    ELSE read_token(s, j + 1, 1, <<s[j]>>, quoted)
  ELSE IF st \in ShQuotes THEN
    LET j == FirstIn(s, i, {st}) IN
    IF j = 0 THEN [i |-> Len(s) + 1, tok |-> tok, none |-> FALSE, err |-> TRUE]
    ELSE read_token(s, j + 1, 1, tok \o SubSeq(s, i, j - 1), TRUE)
  ELSE
    LET j == FirstIn(s, i, ShWhitespace \cup ShCommenters \cup ShQuotes) IN
    IF j = 0
    THEN [i |-> Len(s) + 1, tok |-> tok \o SubSeq(s, i, Len(s)), none |-> FALSE, err |-> FALSE]
    ELSE IF s[j] \in ShWhitespace
    THEN [i |-> j + 1, tok |-> tok \o SubSeq(s, i, j - 1), none |-> FALSE, err |-> FALSE]
    ELSE IF s[j] \in ShCommenters
    THEN [i |-> AfterLine(s, j + 1), tok |-> tok \o SubSeq(s, i, j - 1), none |-> FALSE, err |-> FALSE]
    ELSE read_token(s, j + 1, s[j], tok \o SubSeq(s, i, j - 1), quoted)

\* list(sh): the tokens up to the first None; err when read_token raised.
RECURSIVE shlex_list(_, _, _)
shlex_list(s, i, acc) ==
  LET t == read_token(s, i, 0, <<>>, FALSE) IN
  IF t.err THEN [err |-> TRUE, toks |-> acc]
  ELSE IF t.none THEN [err |-> FALSE, toks |-> acc]
  ELSE shlex_list(s, t.i, Append(acc, t.tok))

----------------------------------------------------------------------------
\* XBDMCommand

IsDigit(ch) == ch \in 48..57

\* CODE_EXP = ^(\d+)- : the length of the digit run when the token starts
\* with one or more digits followed by '-', else 0.
CodeMatch(tok) ==
  LET j == FirstNotIn(tok, 1, 48..57) IN IF j >= 2 /\ tok[j] = 45 THEN j - 1 ELSE 0

\* int() of a run of decimal digits.
RECURSIVE DecValue(_)
DecValue(s) == IF s = <<>> THEN 0 ELSE DecValue(SubSeq(s, 1, Len(s) - 1)) * 10 + (s[Len(s)] - 48)

\* dict assignment self.args[key] = value: a present key keeps its place.
SetArg(args, key, value) ==
  IF \E i \in 1..Len(args) : args[i].key = key
  THEN [i \in 1..Len(args) |-> IF args[i].key = key THEN [key |-> key, value |-> value] ELSE args[i]]
  ELSE Append(args, [key |-> key, value |-> value])

\* XBDMCommand.flag_exists
flag_exists(cmd, key) == \E i \in 1..Len(cmd.flags) : cmd.flags[i] = lower(key)

\* XBDMCommand.set_flag
set_flag(cmd, key) == [cmd EXCEPT !.flags = Append(@, lower(key))]

\* set_param with the key as it is written, as the set_param of the library.
set_param_KeepCase(cmd, key, value) == [cmd EXCEPT !.args = SetArg(@, key, value)]

\* XBDMCommand.set_param for a str value that is not quoted.
set_param(cmd, key, value) == [cmd EXCEPT !.args = SetArg(@, lower(key), value)]

\* The loop of XBDMCommand.parse over command[1:].
RECURSIVE ParseRest(_, _, _)
ParseRest(cmd, toks, i) ==
  IF i > Len(toks) THEN cmd
  ELSE
    LET single == toks[i]
        eq == IndexFrom(single, 61, 1)
    IN IF eq # 0
       THEN ParseRest(set_param(cmd, SubSeq(single, 1, eq - 1),
                                SubSeq(single, eq + 1, Len(single))), toks, i + 1)
       ELSE IF ~flag_exists(cmd, single)
            THEN ParseRest(set_flag(cmd, single), toks, i + 1)
            ELSE ParseRest(cmd, toks, i + 1)

\* XBDMCommand.reset
NewCommand == [name |-> None, code |-> 0, args |-> <<>>, flags |-> <<>>]

\* XBDMCommand.parse: err when shlex raised ValueError or command[0] raised
\* IndexError on an empty token list.
parse(command) ==
  LET l == shlex_list(command, 1, <<>>) IN
  IF l.err \/ l.toks = <<>> THEN [err |-> TRUE, cmd |-> NewCommand]
  ELSE
    LET first == l.toks[1]
        n == CodeMatch(first)
        cmd0 == IF n > 0 THEN [NewCommand EXCEPT !.code = DecValue(SubSeq(first, 1, n))]
                ELSE [NewCommand EXCEPT !.name = Some(first)]
    IN [err |-> FALSE, cmd |-> ParseRest(cmd0, l.toks, 2)]

\* XBDMCommand.get_param: the XBDMParam's value, None when the key is absent.
get_param(cmd, key) ==
  LET k == lower(key) IN
  IF \E i \in 1..Len(cmd.args) : cmd.args[i].key = k
  THEN Some(cmd.args[CHOOSE i \in 1..Len(cmd.args) : cmd.args[i].key = k].value)
  ELSE None

\* XBDMCommand.param_exists
param_exists(cmd, key) == get_param(cmd, key).some

\* XBDMParam.as_str: str(None) is "None".
as_str(p) == IF p.some THEN p.v ELSE S_None

\* XBDMParam.as_bool
as_bool(p) == lower(as_str(p)) \in {S_true, S_1}

IsHexDigit(ch) == ch \in (48..57) \cup (65..70) \cup (97..102)
HexDigitValue(ch) == IF ch \in 48..57 THEN ch - 48 ELSE IF ch \in 65..70 THEN ch - 55 ELSE ch - 87

RECURSIVE HexValue(_)
HexValue(s) ==
  IF s = <<>> THEN 0 ELSE HexValue(SubSeq(s, 1, Len(s) - 1)) * 16 + HexDigitValue(s[Len(s)])

\* XBDMParam.as_int: a value starting with "0x" goes through
\* bytes.fromhex(value[2:].rjust(8, "0")), which raises on an odd number of
\* digits or a non-hex digit; any other value goes through int(), which
\* raises on None and on text that is not a signed decimal number.
as_int(p) ==
  IF ~p.some THEN [err |-> TRUE, v |-> 0]
  ELSE IF startswith(p.v, S_0x) THEN
    LET h == Drop(p.v, 2)
        padded == Max(Len(h), 8)
    IN IF padded % 2 = 0 /\ \A i \in 1..Len(h) : IsHexDigit(h[i])
       THEN [err |-> FALSE, v |-> HexValue(h)]
       ELSE [err |-> TRUE, v |-> 0]
  ELSE
    LET signed == p.v # <<>> /\ p.v[1] \in {43, 45}
        digits == IF signed THEN Tail(p.v) ELSE p.v
    IN IF digits # <<>> /\ \A i \in 1..Len(digits) : IsDigit(digits[i])
       THEN [err |-> FALSE, v |-> IF signed /\ p.v[1] = 45 THEN -DecValue(digits) ELSE DecValue(digits)]
       ELSE [err |-> TRUE, v |-> 0]

\* The digits of n in base 16 (n >= 0), and in base 10.
RECURSIVE HexStr(_)
HexStr(n) ==
  LET d == n % 16
      ch == IF d < 10 THEN 48 + d ELSE 55 + d
  IN IF n < 16 THEN <<ch>> ELSE HexStr(n \div 16) \o <<ch>>

RECURSIVE DecStr(_)
DecStr(n) == IF n < 10 THEN <<48 + n>> ELSE DecStr(n \div 10) \o <<48 + (n % 10)>>

\* "0x" + n.to_bytes(4, "big").hex(): what set_param makes of an integer
\* 0 <= n <= 0xFFFFFFFF, and what uint64_to_uint32(num, True) makes of each
\* half (n < 2^31 here).
Hex32(n) ==
  S_0x \o [i \in 1..8 |->
             LET d == (n \div (16 ^ (8 - i))) % 16 IN IF d < 10 THEN 48 + d ELSE 87 + d]

\* What set_param(key, value, True) makes of a string: the value in quotes.
quoted(value) == <<34>> \o value \o <<34>>

\* sep.join(items)
RECURSIVE join(_, _)
join(sep, items) ==
  IF items = <<>> THEN <<>>
  ELSE IF Len(items) = 1 THEN items[1]
  ELSE items[1] \o sep \o join(sep, Tail(items))

\* XBDMCommand.get_output(True): the bytes of the line, with its line ending.
get_output(cmd) ==
  LET head == IF cmd.code # 0 THEN DecStr(cmd.code) \o <<45>>
              ELSE IF cmd.name.some THEN cmd.name.v ELSE <<>>
      args == IF cmd.args = <<>> THEN <<>>
              ELSE <<32>> \o join(<<32>>, [i \in 1..Len(cmd.args) |->
                                             cmd.args[i].key \o <<61>> \o cmd.args[i].value])
      flags == IF cmd.flags = <<>> THEN <<>> ELSE <<32>> \o join(<<32>>, cmd.flags)
  IN head \o args \o flags \o CRLF

\* A command with the parameters keys[i] = values[i], set in that order.
RECURSIVE set_params(_, _, _)
set_params(cmd, keys, values) ==
  IF keys = <<>> THEN cmd
  ELSE set_params(set_param(cmd, keys[1], values[1]), Tail(keys), Tail(values))

----------------------------------------------------------------------------
\* XBDMShlex and XBDMCommand of xbdm_common.py: the message object of the
\* client library, its typed parameter values, its emitter and its parser.

\* A Python int is modelled by its hexadecimal digits, most significant
\* first, without leading zeros: 0 is the empty sequence, and a negative int
\* has -1 in front of the digits of its magnitude.  0xFFFFFFFF and 2^64 - 1
\* are values of this model.
RECURSIVE Nibbles(_)
Nibbles(n) == IF n = 0 THEN <<>> ELSE Nibbles(n \div 16) \o <<n % 16>>

PyInt(n) == IF n < 0 THEN <<-1>> \o Nibbles(-n) ELSE Nibbles(n)

IsNegative(v) == v # <<>> /\ v[1] = -1

\* The integer of a sequence of hexadecimal digits, for the small ones.
RECURSIVE NibblesValue(_)
NibblesValue(d) ==
  IF d = <<>> THEN 0 ELSE NibblesValue(SubSeq(d, 1, Len(d) - 1)) * 16 + d[Len(d)]

\* s.lstrip(chars)
RECURSIVE lstrip_chars(_, _)
lstrip_chars(s, chars) ==
  IF s # <<>> /\ s[1] \in chars THEN lstrip_chars(Tail(s), chars) ELSE s

\* str.strip()
strip(s) == lstrip_chars(rstrip(s), StripChars)

\* str.upper() on ASCII text.
upper(s) == [i \in 1..Len(s) |-> IF s[i] \in 97..122 THEN s[i] - 32 ELSE s[i]]

\* s.rjust(width, "0")
rjust0(s, width) == [i \in 1..(Max(width, Len(s)) - Len(s)) |-> 48] \o s

\* value.to_bytes(size, "big").hex(): 2 * size lower case digits;
\* OverflowError for a negative value and for one that does not fit.
to_bytes_hex(value, size) ==
  IF IsNegative(value) \/ Len(value) > 2 * size THEN [err |-> TRUE, v |-> <<>>]
  ELSE [err |-> FALSE,
        v |-> [i \in 1..(2 * size) |->
                 LET d == IF i <= 2 * size - Len(value) THEN 0
                          ELSE value[i - (2 * size - Len(value))]
                 IN IF d < 10 THEN 48 + d ELSE 87 + d]]

\* int.from_bytes(bytes.fromhex(s), "big"): ValueError unless s is an even
\* number of hexadecimal digits (s holds no whitespace here).
from_hex(s) ==
  IF Len(s) % 2 = 0 /\ \A i \in 1..Len(s) : IsHexDigit(s[i])
  THEN [err |-> FALSE, v |-> lstrip_chars([i \in 1..Len(s) |-> HexDigitValue(s[i])], {0})]
  ELSE [err |-> TRUE, v |-> <<>>]

\* int(s) for text without whitespace and underscores: an optional sign and
\* decimal digits, else ValueError.
py_int(s) ==
  LET signed == s # <<>> /\ s[1] \in {43, 45}
      digits == IF signed THEN Tail(s) ELSE s
  IN IF digits # <<>> /\ \A i \in 1..Len(digits) : IsDigit(digits[i])
     THEN [err |-> FALSE,
           v |-> IF signed /\ s[1] = 45 THEN PyInt(-DecValue(digits)) ELSE PyInt(DecValue(digits))]
     ELSE [err |-> TRUE, v |-> <<>>]

\* str(n) of an int
py_str(v) ==
  IF IsNegative(v) THEN <<45>> \o DecStr(NibblesValue(Tail(v))) ELSE DecStr(NibblesValue(v))

\* XBDMCommand.value_to_type
value_to_type(value) ==
  IF startswith(value, S_0x) THEN "DWORD"
  ELSE IF startswith(value, <<48, 113>>) THEN "QWORD"
  ELSE IF (\E i \in 1..Len(value) : value[i] = 32) \/ startswith(value, <<34>>)
          \/ startswith(value, <<39>>)
  THEN "QUOTED_STRING"
  ELSE IF py_int(value).err THEN "QUOTED_STRING" ELSE "INTEGER"

\* The DWORD and QWORD branches of value_to_output with the digits as hex()
\* gives them, in lower case.
word_to_output_Lower(value, prefix, size) ==
  IF value = <<>> THEN [err |-> FALSE, v |-> prefix \o <<48>>]
  ELSE IF to_bytes_hex(value, size).err THEN [err |-> TRUE, v |-> <<>>]
  ELSE [err |-> FALSE, v |-> prefix \o lstrip_chars(to_bytes_hex(value, size).v, {48})]

\* The branch of value_to_output for DWORD (prefix "0x", 4 bytes) and QWORD
\* (prefix "0q", 8 bytes).
word_to_output(value, prefix, size) ==
  IF value = <<>> THEN [err |-> FALSE, v |-> prefix \o <<48>>]
  ELSE IF to_bytes_hex(value, size).err THEN [err |-> TRUE, v |-> <<>>]
  ELSE [err |-> FALSE, v |-> prefix \o lstrip_chars(upper(to_bytes_hex(value, size).v), {48})]

\* XBDMCommand.value_to_output
value_to_output(value, t) ==
  IF t = "DWORD" THEN word_to_output(value, S_0x, 4)
  ELSE IF t = "QWORD" THEN word_to_output(value, <<48, 113>>, 8)
  ELSE IF t = "QUOTED_STRING" THEN [err |-> FALSE, v |-> quoted(value)]
  ELSE IF t = "INTEGER" THEN [err |-> FALSE, v |-> py_str(value)]
  ELSE [err |-> FALSE, v |-> value]

\* XBDMCommand.value_apply_type
value_apply_type(value, t) ==
  IF t = "DWORD" THEN
    IF startswith(value, S_0x) THEN from_hex(rjust0(Drop(value, 2), 8)) ELSE py_int(value)
  ELSE IF t = "QWORD" THEN
    IF startswith(value, S_0x) \/ startswith(value, <<48, 113>>)
    THEN from_hex(rjust0(Drop(value, 2), 16)) ELSE py_int(value)
  ELSE IF t = "INTEGER" THEN py_int(value)
  ELSE [err |-> FALSE, v |-> value]

\* XBDMShlex of xbdm_common.py: as the lexer of the server, with '"' as
\* the only quote.
LibQuotes == {34}

RECURSIVE lib_read_token(_, _, _, _, _)
lib_read_token(s, i, st, tok, wasquoted) ==
  IF st = 0 THEN
    LET j == FirstNotIn(s, i, ShWhitespace) IN
    IF j = 0
    THEN [i |-> Len(s) + 1, tok |-> tok, none |-> (~wasquoted /\ tok = <<>>), err |-> FALSE]
    ELSE IF s[j] \in ShCommenters THEN lib_read_token(s, AfterLine(s, j + 1), 0, tok, wasquoted)
    ELSE IF s[j] \in LibQuotes THEN lib_read_token(s, j + 1, s[j], tok, wasquoted)
    ELSE lib_read_token(s, j + 1, 1, <<s[j]>>, wasquoted)
  ELSE IF st \in LibQuotes THEN
    LET j == FirstIn(s, i, {st}) IN
    IF j = 0 THEN [i |-> Len(s) + 1, tok |-> tok, none |-> FALSE, err |-> TRUE]
    ELSE lib_read_token(s, j + 1, 1, tok \o SubSeq(s, i, j - 1), TRUE)
  ELSE
    LET j == FirstIn(s, i, ShWhitespace \cup ShCommenters \cup LibQuotes) IN
    IF j = 0
    THEN [i |-> Len(s) + 1, tok |-> tok \o SubSeq(s, i, Len(s)), none |-> FALSE, err |-> FALSE]
    ELSE IF s[j] \in ShWhitespace
    THEN [i |-> j + 1, tok |-> tok \o SubSeq(s, i, j - 1), none |-> FALSE, err |-> FALSE]
    ELSE IF s[j] \in ShCommenters
    THEN [i |-> AfterLine(s, j + 1), tok |-> tok \o SubSeq(s, i, j - 1), none |-> FALSE, err |-> FALSE]
    ELSE lib_read_token(s, j + 1, s[j], tok \o SubSeq(s, i, j - 1), wasquoted)

\* list(sh) of the library's lexer.
RECURSIVE lib_shlex_list(_, _, _)
lib_shlex_list(s, i, acc) ==
  LET t == lib_read_token(s, i, 0, <<>>, FALSE) IN
  IF t.err THEN [err |-> TRUE, toks |-> acc]
  ELSE IF t.none THEN [err |-> FALSE, toks |-> acc]
  ELSE lib_shlex_list(s, t.i, Append(acc, t.tok))

\* XBDMCommand.reset of the library: no name, code 0, no parameters, no
\* flags.  args is the dict in insertion order, an entry being the key, the
\* value and its XBDMType.
LibCommand == [name |-> None, code |-> 0, args |-> <<>>, flags |-> <<>>]

\* XBDMCommand.set_name, set_code
lib_set_name(cmd, name) == [cmd EXCEPT !.name = Some(name)]
lib_set_code(cmd, code) == [cmd EXCEPT !.code = code]

\* XBDMCommand.set_flag: a flag that is in the list is not added again.
lib_set_flag(cmd, key) ==
  IF \E i \in 1..Len(cmd.flags) : cmd.flags[i] = key THEN cmd
  ELSE [cmd EXCEPT !.flags = Append(@, key)]

\* XBDMCommand.set_param: self.args[key] = (value, t), the key as it is
\* given; a key that is present keeps its place.
lib_set_param(cmd, key, value, t) ==
  IF \E i \in 1..Len(cmd.args) : cmd.args[i].key = key
  THEN [cmd EXCEPT !.args = [i \in 1..Len(cmd.args) |->
                               IF cmd.args[i].key = key THEN [key |-> key, v |-> value, t |-> t]
                               ELSE cmd.args[i]]]
  ELSE [cmd EXCEPT !.args = Append(@, [key |-> key, v |-> value, t |-> t])]

\* self.args.get(key): the value of the entry, or None.
args_get(cmd, key) ==
  IF \E i \in 1..Len(cmd.args) : cmd.args[i].key = key
  THEN Some(cmd.args[CHOOSE i \in 1..Len(cmd.args) : cmd.args[i].key = key].v)
  ELSE None

\* XBDMCommand.get_param(key, lc_check): the entry of the key as given
\* when there is one, else the entry of key.lower(), else None.
lib_get_param(cmd, key, lc_check) ==
  IF ~lc_check /\ args_get(cmd, key).some THEN args_get(cmd, key)
  ELSE IF lc_check /\ ~args_get(cmd, key).some /\ args_get(cmd, lower(key)).some
  THEN args_get(cmd, lower(key))
  ELSE IF args_get(cmd, key).some THEN args_get(cmd, key)
  ELSE args_get(cmd, lower(key))

\* XBDMCommand.get_output(True) of the library: the name, replaced by
\* "<code>-" when the code is not 0; the parameters, after a space unless
\* there is neither name nor code; the flags; the line ending.  err when
\* value_to_output raised.
lib_get_output(cmd) ==
  LET head == IF cmd.code # 0 THEN py_str(PyInt(cmd.code)) \o <<45>>
              ELSE IF cmd.name.some THEN cmd.name.v ELSE <<>>
      ml == ~cmd.name.some /\ cmd.code = 0
      Arg(e) == e.key \o <<61>> \o value_to_output(e.v, e.t).v
      params == IF cmd.args = <<>> THEN <<>>
                ELSE (IF ml THEN <<>> ELSE <<32>>)
                       \o join(<<32>>, [i \in 1..Len(cmd.args) |-> Arg(cmd.args[i])])
      flags == IF cmd.flags = <<>> THEN <<>> ELSE <<32>> \o join(<<32>>, cmd.flags)
  IN [err |-> \E i \in 1..Len(cmd.args) : value_to_output(cmd.args[i].v, cmd.args[i].t).err,
      v |-> head \o params \o flags \o CRLF]

\* The loop of XBDMCommand.parse of the library over parts[idx:].
RECURSIVE LibParseRest(_, _, _)
LibParseRest(r, toks, i) ==
  IF r.err \/ i > Len(toks) THEN r
  ELSE
    LET Param(key, value, t) ==
          IF value_apply_type(value, t).err THEN [err |-> TRUE, cmd |-> r.cmd]
          ELSE [err |-> FALSE, cmd |-> lib_set_param(r.cmd, key, value_apply_type(value, t).v, t)]
        Split(single, eq) ==
          IF eq # 0
          THEN Param(SubSeq(single, 1, eq - 1), SubSeq(single, eq + 1, Len(single)),
                     value_to_type(SubSeq(single, eq + 1, Len(single))))
          ELSE [err |-> FALSE, cmd |-> lib_set_flag(r.cmd, single)]
    IN LibParseRest(Split(toks[i], IndexFrom(toks[i], 61, 1)), toks, i + 1)

\* XBDMCommand.parse of the library: err when the lexer raised ValueError,
\* when parts[0] raised IndexError, or when int() or bytes.fromhex raised.
lib_parse(command) ==
  LET First(toks) ==
        IF toks[1] # <<>> /\ toks[1][Len(toks[1])] = 45
        THEN IF py_int(Take(toks[1], Len(toks[1]) - 1)).err THEN [err |-> TRUE, cmd |-> LibCommand]
             ELSE LibParseRest(
                    [err |-> FALSE,
                     cmd |-> lib_set_code(LibCommand,
                               IF IsNegative(py_int(Take(toks[1], Len(toks[1]) - 1)).v)
                               THEN -NibblesValue(Tail(py_int(Take(toks[1], Len(toks[1]) - 1)).v))
                               ELSE NibblesValue(py_int(Take(toks[1], Len(toks[1]) - 1)).v))],
                    toks, 2)
        ELSE IF IndexFrom(toks[1], 61, 1) # 0
        THEN LibParseRest([err |-> FALSE, cmd |-> LibCommand], toks, 1)
        ELSE LibParseRest([err |-> FALSE, cmd |-> lib_set_name(LibCommand, toks[1])], toks, 2)
      Of(l) == IF l.err \/ l.toks = <<>> THEN [err |-> TRUE, cmd |-> LibCommand] ELSE First(l.toks)
  IN Of(lib_shlex_list(strip(command), 1, <<>>))

----------------------------------------------------------------------------
\* CRC32 of xbdm_common.py, on Python ints: the hexadecimal digits of the
\* value, most significant first, without leading zeros.

\* x ^ y and x & y of two hexadecimal digits.
NibXor(x, y) ==
  ((x + y) % 2) + 2 * (((x \div 2) + (y \div 2)) % 2)
    + 4 * (((x \div 4) + (y \div 4)) % 2) + 8 * (((x \div 8) + (y \div 8)) % 2)
NibAnd(x, y) ==
  ((x % 2) * (y % 2)) + 2 * (((x \div 2) % 2) * ((y \div 2) % 2))
    + 4 * (((x \div 4) % 2) * ((y \div 4) % 2)) + 8 * ((x \div 8) * (y \div 8))

\* The digits d with zeros in front, n digits in all.
PadTo(d, n) == [i \in 1..(n - Len(d)) |-> 0] \o d

\* a ^ b, a & b, a >> 1, a >> 8, a & 1 of ints that are not negative.
py_xor(a, b) ==
  LET n == Max(Len(a), Len(b))
  IN lstrip_chars([i \in 1..n |-> NibXor(PadTo(a, n)[i], PadTo(b, n)[i])] \o <<>>, {0})
py_and(a, b) ==
  LET n == Max(Len(a), Len(b))
  IN lstrip_chars([i \in 1..n |-> NibAnd(PadTo(a, n)[i], PadTo(b, n)[i])] \o <<>>, {0})
py_shr1(a) ==
  lstrip_chars([i \in 1..Len(a) |->
                  (a[i] \div 2) + (IF i > 1 THEN (a[i - 1] % 2) * 8 ELSE 0)] \o <<>>,
               {0})
py_shr8(a) == SubSeq(a, 1, Len(a) - 2)
py_odd(a) == a # <<>> /\ a[Len(a)] % 2 = 1

\* 0xFF and 0xFFFFFFFF
MASK8 == <<15, 15>>
MASK32 == <<15, 15, 15, 15, 15, 15, 15, 15>>

\* The arguments of CRC32(0xFFFFFFFF, 0xEDB88320) in system_file_update.
CRC_IV == <<15, 15, 15, 15, 15, 15, 15, 15>>
CRC_POLY == <<14, 13, 11, 8, 8, 3, 2, 0>>

\* The loop over the 8 bits of one byte in compute_table.
RECURSIVE table_bits(_, _, _, _)
table_bits(byt, crc, poly, bit) ==
  IF bit = 8 THEN crc
  ELSE table_bits(py_shr1(byt),
                  IF py_odd(py_xor(byt, crc)) THEN py_xor(py_shr1(crc), poly)
                  ELSE py_shr1(crc),
                  poly, bit + 1)

\* CRC32.compute_table: the table of the 256 bytes.
compute_table(poly) ==
  [byt \in 0..255 |-> py_and(table_bits(Nibbles(byt), <<>>, poly, 0), MASK32)]

\* CRC32(iv, poly): reset, then the two arguments, then the table.
NewCRC32(iv, poly) == [iv |-> iv, poly |-> poly, value |-> <<>>, table |-> "computed"]

\* One turn of the loop of process: the value after the byte b.
process_byte(value, poly, b) ==
  py_xor(compute_table(poly)[NibblesValue(py_and(py_xor(Nibbles(b), value), MASK8))],
         py_shr8(value))

\* The loop of process over the bytes of data; the value after a byte is
\* computed before the next byte is taken.
RECURSIVE process_bytes(_, _, _)
process_bytes(value, poly, data) ==
  IF data = <<>> THEN value
  ELSE CHOOSE r \in {process_bytes(v, poly, Tail(data)) :
                       v \in {process_byte(value, poly, data[1])}} : TRUE

\* CRC32.process, which is CRC32.write as well: the object after the call.
\* The call returns value & 0xFFFFFFFF.
process(self, data) ==
  LET value == IF self.value = <<>> THEN self.iv ELSE self.value
  IN [self EXCEPT !.value = process_bytes(value, self.poly, data)]
----------------------------------------------------------------------------
\* Virtual paths and the sandbox (pathlib on a POSIX host).

\* The components of p between '/' characters, from index i on.
RECURSIVE Components(_, _)
Components(p, i) ==
  IF i > Len(p) THEN <<>>
  ELSE LET n == IndexFrom(p, 47, i)
           e == IF n = 0 THEN Len(p) + 1 ELSE n
       IN <<SubSeq(p, i, e - 1)>> \o Components(p, e + 1)

RECURSIVE JoinSlash(_)
JoinSlash(cs) ==
  IF cs = <<>> THEN <<>>
  ELSE IF Len(cs) = 1 THEN cs[1]
  ELSE cs[1] \o <<47>> \o JoinSlash(Tail(cs))

\* str(Path(p)): empty and "." components are dropped, ".." is kept.
PurePath(p) ==
  LET kept == SelectSeq(Components(p, 1), LAMBDA c : c # <<>> /\ c # <<46>>)
      body == JoinSlash(kept)
  IN IF p # <<>> /\ p[1] = 47 THEN <<47>> \o body
     ELSE IF body = <<>> THEN <<46>> ELSE body

\* Path(a) / b : an absolute b replaces a.
PathJoin(a, b) ==
  IF b # <<>> /\ b[1] = 47 THEN PurePath(b) ELSE PurePath(a \o <<47>> \o b)

\* The working directory of the server process, "/srv".
Cwd == <<47, 115, 114, 118>>

\* Path.absolute(): a relative path is put under the working directory.
absolute(p) == IF p[1] = 47 THEN p ELSE PurePath(Cwd \o <<47>> \o p)

\* path.replace(":\\", "/").replace("\\", "/")
Slashes(path) ==
  LET p1 == replace(path, S_colon_bslash, <<47>>)
  IN [i \in 1..Len(p1) |-> IF p1[i] = 92 THEN 47 ELSE p1[i]]

xbdm_to_local_path(path) == absolute(PathJoin(LOCAL_DIR, Slashes(path)))

xbdm_to_device_path(path) ==
  LET p1 == IF startswith(path, S_Device) THEN Drop(path, Len(S_Device))
            ELSE IF startswith(path, <<92>>) THEN Drop(path, 1)
            ELSE path
  IN absolute(PathJoin(XBDM_DIR, Slashes(p1)))

\* The file system is a function from the paths of the regular files to
\* their contents.
isfile(fsys, path) == path \in DOMAIN fsys

\* A directory d is the entry d/ of the file system, with nothing in it; the
\* working directory and the directories above it exist from the start.
Slashed(d) == IF d = <<47>> THEN d ELSE d \o <<47>>
AboveCwd(d) == startswith(Slashed(Cwd), Slashed(d))
Below(fsys, path) == {p \in DOMAIN fsys : startswith(p, path \o <<47>>)}
isdir(fsys, path) == Below(fsys, path) # {} \/ AboveCwd(path)

\* Path.parent of an absolute path.
parent(p) ==
  LET i == CHOOSE i \in 1..Len(p) : p[i] = 47 /\ \A j \in (i + 1)..Len(p) : p[j] # 47
  IN IF i = 1 THEN <<47>> ELSE Take(p, i - 1)

\* d and the directories above it.
Ancestors(d) == {d} \cup {Take(d, i - 1) : i \in {i \in 2..Len(d) : d[i] = 47}}

\* d is a regular file, or lies below one.
UnderFile(fsys, d) ==
  \E q \in DOMAIN fsys : q[Len(q)] # 47 /\ startswith(Slashed(d), q \o <<47>>)

\* os.makedirs(d, exist_ok=True), where no regular file is in the way.
makedirs(fsys, d) ==
  LET new == {Slashed(a) : a \in {a \in Ancestors(d) : ~AboveCwd(a)}} \ DOMAIN fsys
  IN [p \in DOMAIN fsys \cup new |-> IF p \in DOMAIN fsys THEN fsys[p] ELSE <<>>]

\* The elements of a finite set in an order: os.walk lists the entries in the
\* order of the directory, the same from call to call.
RECURSIVE Listing(_)
Listing(S) ==
  IF S = {} THEN <<>>
  ELSE LET x == CHOOSE x \in S : TRUE IN <<x>> \o Listing(S \ {x})

\* next(walk(path))[2] and next(walk(path))[1]: the names of the regular
\* files and of the directories in directory path.
list_files(fsys, path) ==
  Listing({Drop(p, Len(path) + 1) :
             p \in {p \in Below(fsys, path) :
                      Len(p) > Len(path) + 1 /\ IndexFrom(p, 47, Len(path) + 2) = 0}})
list_dirs(fsys, path) ==
  Listing({SubSeq(p, Len(path) + 2, Len(p) - 1) :
             p \in {p \in Below(fsys, path) :
                      Len(p) > Len(path) + 1 /\ IndexFrom(p, 47, Len(path) + 2) = Len(p)}})

\* os.rename(old, new) of an existing old: err when it raises (a file onto a
\* directory, a directory onto a file, onto a directory that is not empty or
\* into itself).
rename(fsys, old, new) ==
  IF old = new THEN [err |-> FALSE, fs |-> fsys]
  ELSE IF old \in DOMAIN fsys
  THEN IF Below(fsys, new) # {} \/ AboveCwd(new) THEN [err |-> TRUE, fs |-> fsys]
       ELSE [err |-> FALSE,
             fs |-> [p \in (DOMAIN fsys \ {old}) \cup {new} |->
                       IF p = new THEN fsys[old] ELSE fsys[p]]]
  ELSE IF new \in DOMAIN fsys \/ Below(fsys, new) \ {Slashed(new)} # {}
          \/ startswith(new, Slashed(old)) \/ AboveCwd(new)
  THEN [err |-> TRUE, fs |-> fsys]
  ELSE LET moved == Below(fsys, old)
           to(p) == new \o Drop(p, Len(old))
           kept == DOMAIN fsys \ (moved \cup {Slashed(new)})
       IN [err |-> FALSE,
           fs |-> [p \in kept \cup {to(q) : q \in moved} |->
                     IF p \in kept THEN fsys[p]
                     ELSE fsys[CHOOSE q \in moved : to(q) = p]]]

\* os.remove(path)
remove(fsys, path) == [p \in DOMAIN fsys \ {path} |-> fsys[p]]

\* shutil.rmtree(path, True)
rmtree(fsys, path) == [p \in DOMAIN fsys \ Below(fsys, path) |-> fsys[p]]

\* file_handle is None, or an open binary file: its path and position.
NoHandle == [open |-> FALSE, path |-> <<>>, pos |-> 0]

\* open(path, "wb"): the file is created or truncated.
OpenWb(fsys, path) == [p \in DOMAIN fsys \cup {path} |-> IF p = path THEN <<>> ELSE fsys[p]]

\* file_handle.write(data) at the handle's position (a gap left by a
\* truncation through another handle reads as NUL bytes).
FileWrite(fsys, h, data) ==
  IF h.path \notin DOMAIN fsys THEN fsys
  ELSE LET old == fsys[h.path]
           head == [i \in 1..h.pos |-> IF i <= Len(old) THEN old[i] ELSE 0]
       IN [fsys EXCEPT ![h.path] = head \o data \o Drop(old, h.pos + Len(data))]

\* Python integers are unbounded and TLC's are 32-bit: a value of 2^31 or
\* more is held as 2^31 - 1.  The model compares such a value only with the
\* lengths of reads, all far below it, so every comparison comes out as in
\* the source.
Huge == 2147483647

\* unpack(">I", b) of four bytes.
BE32(b) == IF b[1] >= 128 THEN Huge ELSE ((b[1] * 256 + b[2]) * 256 + b[3]) * 256 + b[4]

\* uint32_to_uint64(low, high) of two integers: (high << 32) | low.
uint32_to_uint64(low, high) == IF high = 0 THEN low ELSE Huge

\* (b"\x00" * 4) * n
Nul4(n) == [i \in 1..(4 * n) |-> 0]

\* pack("<I", n)
LE32Bytes(n) ==
  <<n % 256, (n \div 256) % 256, (n \div 65536) % 256, (n \div 16777216) % 256>>

\* The configuration the server loaded from config.json: the values its
\* handlers read (a console with one module and a disk below 2^31 bytes).
cfg ==
  [hdd_enabled |-> TRUE,
   console_type |-> <<100, 101, 118>>,
   platform |-> <<119>>, system |-> <<115>>,
   base_kernel |-> <<49>>, kernel |-> <<50>>, xdk |-> <<51>>,
   modules |-> <<[name |-> <<107, 46, 101, 120, 101>>, base |-> 262144, size |-> 4096]>>,
   console_hdd_size |-> 1048576]

\* dt_to_filetime(datetime.utcnow()) as uint64_to_uint32 splits it: the two
\* halves of the time of the call.
Now == [lo |-> 1080458496, hi |-> 31250000]

----------------------------------------------------------------------------
\* XBDMServerProtocol: one session.  A session s holds the protocol's
\* registers, the bytes written to its transport (out), whether
\* transport.close() was called (closing), whether the running callback
\* raised (raised), and the file system (fs).

\* XBDMServerProtocol.reset
reset(s) ==
  [s EXCEPT !.receiving_file = FALSE, !.file_cksm = 0, !.receiving_files = FALSE,
            !.num_files_total = 0, !.num_files_left = 0, !.file_data_left = 0,
            !.receiving_type = "NONE", !.file_path = <<>>, !.file_handle = NoHandle]

\* transport.write(data)
write(s, data) == [s EXCEPT !.out = @ \o data]

\* transport.close()
close(s) == [s EXCEPT !.closing = TRUE]

\* An exception leaves the callback.
Raise(s) == [s EXCEPT !.raised = TRUE]

send_single_line(s, line) == write(s, IF endswith(line, CRLF) THEN line ELSE line \o CRLF)

start_multi_line(s) == send_single_line(s, R_multiline)
end_multi_line(s) == send_single_line(s, R_dot)

\* The loop of send_multi_line over the lines.
RECURSIVE send_lines(_, _)
send_lines(s, lines) ==
  IF lines = <<>> THEN s ELSE send_lines(send_single_line(s, lines[1]), Tail(lines))

\* A send_multi_line that leaves out the terminating line.
send_multi_line_NoEnd(s, lines, start_stop) ==
  send_lines(IF start_stop THEN start_multi_line(s) ELSE s, lines)

send_multi_line(s, lines, start_stop) ==
  LET s1 == send_lines(IF start_stop THEN start_multi_line(s) ELSE s, lines)
  IN IF start_stop THEN end_multi_line(s1) ELSE s1

\* p.parent.mkdir(parents=True, exist_ok=True) in xbdm_to_local_path and
\* xbdm_to_device_path: it raises when a regular file is in the way.
MkParent(s, path) ==
  IF UnderFile(s.fs, parent(path)) THEN Raise(s)
  ELSE [s EXCEPT !.fs = makedirs(@, parent(path))]

\* A greeting that lacks its line ending: what connection_made would send if
\* it wrote the line with transport.write instead of send_single_line.
connection_made_NoLineEnd(s) == write(reset(s), R_connected)

\* connection_made
connection_made(s) == send_single_line(reset(s), R_connected)

\* case "xbupdate!sysfileupd"
HandleSysFileUpd(s, parsed) ==
  LET file_name == as_str(get_param(parsed, K_name))
      file_path == xbdm_to_device_path(file_name)
      s0 == MkParent(s, file_path)
  IN IF s0.raised THEN s0
     ELSE IF param_exists(parsed, K_remove) /\ as_bool(get_param(parsed, K_remove))
     THEN send_single_line(
            [s0 EXCEPT !.fs = IF isfile(@, file_path) THEN remove(@, file_path) ELSE @], R_ok)
     ELSE IF param_exists(parsed, K_removedir) /\ as_bool(get_param(parsed, K_removedir))
     THEN send_single_line(
            [s0 EXCEPT !.fs = IF isdir(@, file_path) THEN rmtree(@, file_path) ELSE @], R_ok)
     ELSE IF param_exists(parsed, K_size)
     THEN LET file_size == as_int(get_param(parsed, K_size))
              crc == as_int(get_param(parsed, K_crc))
          IN IF file_size.err \/ crc.err THEN Raise(s0)
             ELSE [send_single_line(s0, R_send_binary) EXCEPT
                     !.file_data_left = file_size.v, !.file_cksm = crc.v,
                     !.receiving_file = TRUE, !.receiving_type = "XBUPDATE_SINGLE",
                     !.file_path = file_path]
     ELSE send_single_line(s0, R_ok)

\* A sendvfile handler that writes the status table before the line that
\* announces it.
HandleSendVFile_TableFirst(s, parsed) ==
  IF param_exists(parsed, K_count)
  THEN LET file_count == as_int(get_param(parsed, K_count))
       IN IF file_count.err THEN Raise(s)
          ELSE IF file_count.v > 0
          THEN LET s1 == [send_single_line(s, R_send_binary) EXCEPT
                            !.num_files_total = file_count.v,
                            !.num_files_left = file_count.v,
                            !.receiving_files = TRUE]
               IN send_single_line(write(s1, Nul4(s1.num_files_total)), R_binary_follows)
          ELSE s
  ELSE s

\* case "sendvfile"
HandleSendVFile(s, parsed) ==
  IF param_exists(parsed, K_count)
  THEN LET file_count == as_int(get_param(parsed, K_count))
       IN IF file_count.err THEN Raise(s)
          ELSE IF file_count.v > 0
          THEN LET s1 == [send_single_line(s, R_send_binary) EXCEPT
                            !.num_files_total = file_count.v,
                            !.num_files_left = file_count.v,
                            !.receiving_files = TRUE]
               IN write(send_single_line(s1, R_binary_follows), Nul4(s1.num_files_total))
          ELSE s
  ELSE s

\* A sendfile handler that leaves receiving_type as it is.
HandleSendFile_NoType(s, parsed) ==
  LET file_name == as_str(get_param(parsed, K_name))
      file_size == as_int(get_param(parsed, K_length))
  IN IF file_size.err THEN Raise(s)
     ELSE LET s1 == MkParent([send_single_line(s, R_send_binary) EXCEPT
                                !.file_data_left = file_size.v, !.receiving_file = TRUE],
                             xbdm_to_device_path(file_name))
          IN IF s1.raised THEN s1
             ELSE [s1 EXCEPT !.file_path = xbdm_to_device_path(file_name)]

\* case "sendfile"
HandleSendFile(s, parsed) ==
  LET file_name == as_str(get_param(parsed, K_name))
      file_size == as_int(get_param(parsed, K_length))
  IN IF file_size.err THEN Raise(s)
     ELSE LET s1 == MkParent([send_single_line(s, R_send_binary) EXCEPT
                                !.file_data_left = file_size.v, !.receiving_file = TRUE,
                                !.receiving_type = "SENDFILE_SINGLE"],
                             xbdm_to_device_path(file_name))
          IN IF s1.raised THEN s1
             ELSE [s1 EXCEPT !.file_path = xbdm_to_device_path(file_name)]

\* A bye handler that answers and leaves the transport open.
HandleBye_NoClose(s) == send_single_line(s, R_bye)

\* case "bye"
HandleBye(s) == close(send_single_line(s, R_bye))

\* The attribute values of a regular file of size bytes, in the order of
\* AttrKeys.
FileAttrs(size) ==
  <<Hex32(0), Hex32(size), Hex32(Now.hi), Hex32(Now.lo), Hex32(Now.hi), Hex32(Now.lo)>>

\* case "systeminfo".  The conditional expression binds weaker than +: the
\* first line is "HDD=Enabled" or "Disabled".
HandleSystemInfo(s) ==
  send_multi_line(s,
    <<IF cfg.hdd_enabled THEN SysInfoWords[1] \o SysInfoWords[2] ELSE SysInfoWords[3],
      SysInfoWords[4] \o cfg.console_type,
      SysInfoWords[5] \o cfg.platform \o SysInfoWords[6] \o cfg.system,
      SysInfoWords[7] \o cfg.base_kernel \o SysInfoWords[8] \o cfg.kernel
        \o SysInfoWords[9] \o cfg.xdk>>, TRUE)

\* case "drivelist": list_drives() raises when the directory of the drives
\* does not exist.
HandleDriveList(s) ==
  LET List(drives) ==
        send_multi_line(s, [i \in 1..Len(drives) |-> R_drivename \o drives[i] \o <<34>>], TRUE)
      Go(path) == IF isdir(s.fs, path) THEN List(list_dirs(s.fs, path)) ELSE Raise(s)
  IN Go(absolute(PurePath(LOCAL_DIR)))

\* case "modules"
HandleModules(s) ==
  send_multi_line(s,
    [i \in 1..Len(cfg.modules) |->
       get_output(set_params(NewCommand, ModuleKeys,
         <<quoted(cfg.modules[i].name), Hex32(cfg.modules[i].base), Hex32(cfg.modules[i].size),
           Hex32(0), Hex32(0), Hex32(0), Hex32(0), Hex32(0), Hex32(0)>>))], TRUE)

\* case "drivefreespace": the XBDMParam that get_param returns is always true.
HandleDriveFreeSpace(s) ==
  LET Line(low, high) ==
        get_output(set_params(NewCommand, FreeSpaceKeys, <<low, high, low, high, low, high>>))
  IN send_multi_line(s, <<Line(Hex32(cfg.console_hdd_size), Hex32(0))>>, TRUE)

\* The start of the case of a file command: xbdm_to_local_path of parameter
\* key, which makes the parent directory, and then(s1, phys_path), the rest
\* of the case.
WithPath(s, parsed, key, then(_, _)) ==
  LET Go(s1, phys_path) == IF s1.raised THEN s1 ELSE then(s1, phys_path)
      At(phys_path) == Go(MkParent(s, phys_path), phys_path)
  IN At(xbdm_to_local_path(as_str(get_param(parsed, key))))

\* case "dirlist"
HandleDirList(s, parsed) ==
  LET file_line(fsys, phys_path, single) ==
        get_output(set_params(set_param(NewCommand, K_name, quoted(single)), AttrKeys,
                              FileAttrs(Len(fsys[phys_path \o <<47>> \o single]))))
      dir_line(x) == K_name \o <<61>> \o quoted(x) \o R_dir_attrs
      List(s1, phys_path, files, dirs) ==
        end_multi_line(
          send_multi_line(
            send_multi_line(start_multi_line(s1),
              [i \in 1..Len(files) |-> file_line(s1.fs, phys_path, files[i])], FALSE),
            [i \in 1..Len(dirs) |-> dir_line(dirs[i])], FALSE))
      Go(s1, phys_path) ==
        IF isdir(s1.fs, phys_path)
        THEN List(s1, phys_path, list_files(s1.fs, phys_path), list_dirs(s1.fs, phys_path))
        ELSE send_single_line(s1, R_dir_not_found)
  IN IF param_exists(parsed, K_name) THEN WithPath(s, parsed, K_name, Go) ELSE s

\* case "getfileattributes"
HandleGetFileAttributes(s, parsed) ==
  LET Go(s1, phys_path) ==
        IF isfile(s1.fs, phys_path)
        THEN send_multi_line(s1,
               <<get_output(set_params(NewCommand, AttrKeys,
                                       FileAttrs(Len(s1.fs[phys_path]))))>>, TRUE)
        ELSE send_single_line(s1, R_file_not_found)
  IN IF param_exists(parsed, K_name) THEN WithPath(s, parsed, K_name, Go) ELSE s

\* case "mkdir"
HandleMkdir(s, parsed) ==
  LET Go(s1, phys_path) ==
        IF ~isfile(s1.fs, phys_path) /\ ~isdir(s1.fs, phys_path)
        THEN send_single_line([s1 EXCEPT !.fs = makedirs(@, phys_path)], R_ok)
        ELSE s1
  IN IF param_exists(parsed, K_name) THEN WithPath(s, parsed, K_name, Go) ELSE s

\* case "getfile"
HandleGetFile(s, parsed) ==
  LET Send(s1, data) ==
        write(write(write(s1, R_binary_follows \o CRLF), LE32Bytes(Len(data))), data)
      Go(s1, phys_path) == IF isfile(s1.fs, phys_path) THEN Send(s1, s1.fs[phys_path]) ELSE s1
  IN IF param_exists(parsed, K_name) THEN WithPath(s, parsed, K_name, Go) ELSE s

\* case "rename"
HandleRename(s, parsed) ==
  LET Done(s2, r) ==
        IF r.err THEN Raise(s2) ELSE send_single_line([s2 EXCEPT !.fs = r.fs], R_ok)
      New(s2, old_file_path, new_file_path) ==
        IF isfile(s2.fs, old_file_path) \/ isdir(s2.fs, old_file_path)
        THEN Done(s2, rename(s2.fs, old_file_path, new_file_path))
        ELSE s2
      Old(s1, old_file_path) ==
        LET Go(s2, new_file_path) == New(s2, old_file_path, new_file_path)
        IN WithPath(s1, parsed, K_newname, Go)
  IN IF param_exists(parsed, K_name) /\ param_exists(parsed, K_newname)
     THEN WithPath(s, parsed, K_name, Old)
     ELSE s

\* case "delete": os.remove raises on a path that is no regular file.
HandleDelete(s, parsed) ==
  LET Go(s1, phys_path) ==
        IF flag_exists(parsed, K_dir)
        THEN send_single_line([s1 EXCEPT !.fs = rmtree(@, phys_path)], R_ok)
        ELSE IF isfile(s1.fs, phys_path)
        THEN send_single_line([s1 EXCEPT !.fs = remove(@, phys_path)], R_ok)
        ELSE Raise(s1)
  IN IF param_exists(parsed, K_name) THEN WithPath(s, parsed, K_name, Go) ELSE s

\* case "magicboot": both branches send the same line.
HandleMagicBoot(s, parsed) ==
  IF param_exists(parsed, K_title) /\ param_exists(parsed, K_directory)
  THEN send_single_line(s, R_ok)
  ELSE send_single_line(s, R_ok)

\* The verbs whose handler only sends "200- OK".
OkVerbs == {V_recovery, V_keyxchg, V_setfileattributes}

\* The xbupdate!* verbs whose handler only sends "200- OK".
XbOkVerbs ==
  {V_drawtext, V_validatehddpartitions, V_isflashclean, V_configure, V_xbrecovery,
   V_flash, V_setxamfeaturemask, V_close, V_finish}

\* The xbupdate!* verbs whose handler sends one line of its own.
XbLineVerbs ==
  {V_version, V_instrecoverytype, V_validdevice, V_commitsysextramdisk, V_getregion,
   V_restart}

\* The line of such a handler, as it is handed to send_single_line.
XbLine(verb) ==
  IF verb = V_version THEN R_version
  ELSE IF verb = V_instrecoverytype THEN R_instrecoverytype
  ELSE IF verb = V_validdevice THEN R_validdevice
  ELSE IF verb = V_commitsysextramdisk THEN R_commitsysextramdisk
  ELSE IF verb = V_getregion THEN R_getregion
  ELSE R_restart

\* The match statement over parsed.name.lower(): the cases of the transfer,
\* file, listing and xbupdate!* commands, and the default case, which writes
\* nothing.
Dispatch(s, parsed) ==
  LET verb == lower(parsed.name.v) IN
  IF verb = V_boxid THEN send_single_line(s, R_boxid)
  ELSE IF verb \in OkVerbs \cup XbOkVerbs THEN send_single_line(s, R_ok)
  ELSE IF verb \in XbLineVerbs THEN send_single_line(s, XbLine(verb))
  ELSE IF verb = V_sysfileupd THEN HandleSysFileUpd(s, parsed)
  ELSE IF verb = V_sendvfile THEN HandleSendVFile(s, parsed)
  ELSE IF verb = V_sendfile THEN HandleSendFile(s, parsed)
  ELSE IF verb = V_getuserpriv THEN send_single_line(s, R_getuserpriv)
  ELSE IF verb = V_bye THEN HandleBye(s)
  ELSE IF verb = V_systeminfo THEN HandleSystemInfo(s)
  ELSE IF verb = V_drivelist THEN HandleDriveList(s)
  ELSE IF verb = V_modules THEN HandleModules(s)
  ELSE IF verb = V_drivefreespace THEN HandleDriveFreeSpace(s)
  ELSE IF verb = V_dirlist THEN HandleDirList(s, parsed)
  ELSE IF verb = V_getfileattributes THEN HandleGetFileAttributes(s, parsed)
  ELSE IF verb = V_mkdir THEN HandleMkdir(s, parsed)
  ELSE IF verb = V_getfile THEN HandleGetFile(s, parsed)
  ELSE IF verb = V_rename THEN HandleRename(s, parsed)
  ELSE IF verb = V_delete THEN HandleDelete(s, parsed)
  ELSE IF verb = V_userlist THEN send_multi_line(s, <<R_userlist>>, TRUE)
  ELSE IF verb = V_magicboot THEN HandleMagicBoot(s, parsed)
  ELSE s

\* The command branch of data_received: decode, parse, dispatch.  The decode
\* and the parse can raise, and so does parsed.name.lower() on a reply line,
\* whose name is None.
HandleCommand(s, raw_command) ==
  IF ~DecodeOk(raw_command) THEN Raise(s)
  ELSE LET p == parse(format_command(raw_command)) IN
       IF p.err \/ ~p.cmd.name.some THEN Raise(s) ELSE Dispatch(s, p.cmd)

\* A receiving_file branch that finishes as soon as the counter is at or
\* below zero, so that it acknowledges a body that overran its length.
ReceiveFile_AtOrBelowZero(s, raw_command) ==
  LET h0 == IF s.file_handle.open THEN s.file_handle
            ELSE [open |-> TRUE, path |-> s.file_path, pos |-> 0]
      fs0 == IF s.file_handle.open THEN s.fs ELSE OpenWb(s.fs, s.file_path)
      s1 == [s EXCEPT !.fs = FileWrite(fs0, h0, raw_command),
                      !.file_handle = [h0 EXCEPT !.pos = @ + Len(raw_command)],
                      !.file_data_left = @ - Len(raw_command)]
  IN IF s1.file_data_left <= 0
     THEN LET s2 == [s1 EXCEPT !.file_handle = NoHandle, !.file_path = <<>>,
                               !.receiving_file = FALSE]
              s3 == IF s2.receiving_type = "SENDFILE_SINGLE"
                    THEN write(send_single_line(s2, R_binary_follows), Nul4(1))
                    ELSE IF s2.receiving_type = "XBUPDATE_SINGLE"
                    THEN send_single_line(s2, R_ok)
                    ELSE s2
          IN [s3 EXCEPT !.receiving_type = "NONE"]
     ELSE s1

\* The receiving_file branch of data_received.
ReceiveFile(s, raw_command) ==
  LET h0 == IF s.file_handle.open THEN s.file_handle
            ELSE [open |-> TRUE, path |-> s.file_path, pos |-> 0]
      fs0 == IF s.file_handle.open THEN s.fs ELSE OpenWb(s.fs, s.file_path)
      s1 == [s EXCEPT !.fs = FileWrite(fs0, h0, raw_command),
                      !.file_handle = [h0 EXCEPT !.pos = @ + Len(raw_command)],
                      !.file_data_left = @ - Len(raw_command)]
  IN IF s1.file_data_left = 0
     THEN LET s2 == [s1 EXCEPT !.file_handle = NoHandle, !.file_path = <<>>,
                               !.receiving_file = FALSE]
              s3 == IF s2.receiving_type = "SENDFILE_SINGLE"
                    THEN write(send_single_line(s2, R_binary_follows), Nul4(1))
                    ELSE IF s2.receiving_type = "XBUPDATE_SINGLE"
                    THEN send_single_line(s2, R_ok)
                    ELSE s2
          IN [s3 EXCEPT !.receiving_type = "NONE"]
     ELSE s1

\* An end of the receiving_files branch that keeps num_files_total.
FinishFiles_KeepTotal(s) ==
  LET s1 == IF s.file_data_left = 0
            THEN IF ~s.file_handle.open THEN Raise(s)
                 ELSE [s EXCEPT !.file_handle = NoHandle, !.num_files_left = @ - 1,
                                !.file_data_left = 0, !.file_path = <<>>]
            ELSE s
  IN IF s1.raised THEN s1
     ELSE IF s1.num_files_left = 0
     THEN [write(send_single_line(s1, R_binary_follows), Nul4(s1.num_files_total)) EXCEPT
             !.receiving_files = FALSE]
     ELSE s1

\* The end of the receiving_files branch: close a finished file, and
\* acknowledge once no file is left.  Closing raises when file_handle is None.
FinishFiles(s) ==
  LET s1 == IF s.file_data_left = 0
            THEN IF ~s.file_handle.open THEN Raise(s)
                 ELSE [s EXCEPT !.file_handle = NoHandle, !.num_files_left = @ - 1,
                                !.file_data_left = 0, !.file_path = <<>>]
            ELSE s
  IN IF s1.raised THEN s1
     ELSE IF s1.num_files_left = 0
     THEN [write(send_single_line(s1, R_binary_follows), Nul4(s1.num_files_total)) EXCEPT
             !.num_files_total = 0, !.receiving_files = FALSE]
     ELSE s1

\* The file header of the receiving_files branch.  unpack raises on fewer
\* than 4 bytes and on a header block shorter than 28 bytes.
ReceiveHeader(s, raw_command) ==
  IF Len(raw_command) < 4 THEN Raise(s)
  ELSE
    LET header_size == BE32(SubSeq(raw_command, 1, 4))
        after == Drop(raw_command, 4)
        header == IF header_size - 4 < 0 THEN after ELSE Take(after, header_size - 4)
        rest == Drop(after, Len(header))
    IN IF Len(header) < 28 THEN Raise(s)
       ELSE
         LET file_size == uint32_to_uint64(BE32(SubSeq(header, 21, 24)),
                                           BE32(SubSeq(header, 17, 20)))
             name == SubSeq(header, 29, Len(header) - 1)
         IN IF ~DecodeOk(name) THEN Raise(s)
            ELSE
              LET path == xbdm_to_local_path(name)
                  h == [open |-> TRUE, path |-> path, pos |-> 0]
                  s0 == MkParent(s, path)
              IN IF s0.raised THEN s0 ELSE FinishFiles(
                   [s0 EXCEPT !.file_path = path,
                             !.fs = FileWrite(OpenWb(@, path), h, rest),
                             !.file_handle = [h EXCEPT !.pos = Len(rest)],
                             !.file_data_left = file_size - Len(rest)])

\* A branch for the 12 bytes that drops them.
HandshakeEcho_Silent(s, raw_command) == s

\* The branch of data_received for the 12 bytes: transport.write(raw_command).
HandshakeEcho(s, raw_command) == write(s, raw_command)

RECURSIVE data_received(_, _)

\* The receiving_files branch of data_received.
ReceiveFiles(s, raw_command) ==
  IF s.num_files_left > 0 /\ ~s.file_handle.open /\ s.file_data_left = 0
  THEN ReceiveHeader(s, raw_command)
  ELSE IF s.num_files_left > 0 /\ s.file_handle.open /\ s.file_data_left > 0
  THEN IF s.file_data_left < Len(raw_command)
       THEN \* fragmented packet
            data_received(
              [s EXCEPT !.fs = FileWrite(@, s.file_handle, Take(raw_command, s.file_data_left)),
                        !.file_handle = NoHandle, !.num_files_left = @ - 1,
                        !.file_path = <<>>, !.file_data_left = 0],
              Drop(raw_command, s.file_data_left))
       ELSE FinishFiles(
              [s EXCEPT !.fs = FileWrite(@, s.file_handle, raw_command),
                        !.file_handle.pos = @ + Len(raw_command),
                        !.file_data_left = @ - Len(raw_command)])
  ELSE FinishFiles(s)

\* XBDMServerProtocol.data_received
data_received(s, raw_command) ==
  IF raw_command = <<>> THEN s
  ELSE IF endswith(raw_command, CRLF) /\ ~(s.receiving_file \/ s.receiving_files)
  THEN HandleCommand(s, raw_command)
  ELSE IF raw_command = HANDSHAKE THEN HandshakeEcho(s, raw_command)
  ELSE IF s.receiving_file THEN ReceiveFile(s, raw_command)
  ELSE IF s.receiving_files THEN ReceiveFiles(s, raw_command)
  ELSE s


----------------------------------------------------------------------------
\* Bounds of the model.

\* The number of connections the listener accepts.
NumConns == 2
\* The declared length of the file a sendfile or xbupdate script uploads.
BodyLen == 3
\* The number of files of the sendvfile script.
NumFiles == 2

Conns == 1..NumConns

----------------------------------------------------------------------------
\* Clients.  A script is what one client sends: a sequence of phases, each
\* the bytes of one command line or of one binary block, with the files the
\* client means to upload.

\* pack(">I", n)
BE32Bytes(n) ==
  <<(n \div 16777216) % 256, (n \div 65536) % 256, (n \div 256) % 256, n % 256>>

\* n bytes of file content starting at byte value first.
Body(n, first) == [i \in 1..n |-> first + i - 1]

Line(data) == [data |-> data \o CRLF, line |-> TRUE, await |-> TRUE]
Block(data) == [data |-> data, line |-> FALSE, await |-> TRUE]

\* A plain SENDFILE of BodyLen bytes to E:\f<c>, then BYE.
SendFileScript(c) ==
  [kind |-> "sendfile",
   phases |-> <<Line(C_sendfile_pre \o DecStr(c) \o C_length_pre \o HexStr(BodyLen)),
                Block(Body(BodyLen, 65 + 16 * (c - 1))),
                Line(C_bye)>>,
   files |-> <<[path |-> xbdm_to_device_path(N_sendfile_pre \o DecStr(c)),
                data |-> Body(BodyLen, 65 + 16 * (c - 1))]>>]

\* An xbupdate!sysfileupd upload of BodyLen bytes to \Device\Flash\u<c>, then BYE.
XbUpdateScript(c) ==
  [kind |-> "xbupdate",
   phases |-> <<Line(C_sysfileupd_pre \o DecStr(c) \o C_size_pre \o HexStr(BodyLen) \o C_crc),
                Block(Body(BodyLen, 75)),
                Line(C_bye)>>,
   files |-> <<[path |-> xbdm_to_device_path(N_sysfileupd_pre \o DecStr(c)),
                data |-> Body(BodyLen, 75)]>>]

\* The header block the receiving_files branch reads: the big-endian block
\* size, six 32-bit time and size fields (the file is smaller than 2^32
\* bytes: the high half of its size is 0), the attributes, the
\* NUL-terminated virtual path.
FileHeader(name, size) ==
  BE32Bytes(4 + 28 + Len(name) + 1)
    \o BE32Bytes(0) \o BE32Bytes(0) \o BE32Bytes(0) \o BE32Bytes(0)
    \o BE32Bytes(0) \o BE32Bytes(size)
    \o BE32Bytes(128) \o name \o <<0>>

\* File i of the sendvfile script: E:\v<i>, of BodyLen + 1 - i bytes.
VFileName(i) == N_vfile_pre \o DecStr(i)
VFileSize(i) == Max(BodyLen + 1 - i, 0)
VFileData(i) == Body(VFileSize(i), 97 + 8 * (i - 1))

RECURSIVE VFileStream(_)
VFileStream(i) ==
  IF i > NumFiles THEN <<>>
  ELSE FileHeader(VFileName(i), VFileSize(i)) \o VFileData(i) \o VFileStream(i + 1)

\* A SENDVFILE of NumFiles files, then BYE.
SendVFileScript ==
  [kind |-> "sendvfile",
   phases |-> <<Line(C_sendvfile_pre \o DecStr(NumFiles)),
                Block(VFileStream(1)),
                Line(C_bye)>>,
   files |-> [i \in 1..NumFiles |->
                [path |-> xbdm_to_local_path(VFileName(i)), data |-> VFileData(i)]]]

\* Two commands that upload nothing: BoxID, then ByE.
SimpleScript ==
  [kind |-> "simple", phases |-> <<Line(C_boxid), Line(C_bye_mixed)>>, files |-> <<>>]

\* A client that connects and sends nothing.
IdleScript == [kind |-> "idle", phases |-> <<>>, files |-> <<>>]

Scripts == {SendFileScript(1), XbUpdateScript(1), SendVFileScript, SimpleScript}

----------------------------------------------------------------------------
\* State.

VARIABLES
  conn,             \* per connection: "listening", "open", "closing", "lost"
  receiving_file, file_cksm, receiving_files, num_files_total, num_files_left,
  file_data_left, receiving_type, file_path, file_handle,
                    \* per connection: the registers of XBDMServerProtocol
  out,              \* per connection: the bytes written to the transport
  fs,               \* the files under the sandbox
  inbound,          \* per connection: bytes sent by the client and not yet read
  todo,             \* per connection: the phases the client has yet to send
  seen,             \* per connection: Len(out) when the client last sent
  script,           \* per connection: the script of its client
  client,           \* per connection: the operation of the client library on it
  msg,              \* a message object of the client library and what was done with it
  crc,              \* a CRC32 object of the client library and the data written to it
  lex               \* a line and the tokens the two lexers made of it

regs == <<receiving_file, file_cksm, receiving_files, num_files_total, num_files_left,
          file_data_left, receiving_type, file_path, file_handle>>
objs == <<msg, crc, lex>>
vars == <<conn, regs, out, fs, inbound, todo, seen, script, client, objs>>

\* Sessions whose file_path is one attribute of the class, shared by every
\* connection, instead of an attribute of the instance.
Session_SharedPath(c) ==
  [receiving_file |-> receiving_file[c], file_cksm |-> file_cksm[c],
   receiving_files |-> receiving_files[c], num_files_total |-> num_files_total[c],
   num_files_left |-> num_files_left[c], file_data_left |-> file_data_left[c],
   receiving_type |-> receiving_type[c], file_path |-> file_path[1],
   file_handle |-> file_handle[c], out |-> out[c], fs |-> fs,
   closing |-> FALSE, raised |-> FALSE]

\* The session of connection c, as the callbacks of its protocol see it.
Session(c) ==
  [receiving_file |-> receiving_file[c], file_cksm |-> file_cksm[c],
   receiving_files |-> receiving_files[c], num_files_total |-> num_files_total[c],
   num_files_left |-> num_files_left[c], file_data_left |-> file_data_left[c],
   receiving_type |-> receiving_type[c], file_path |-> file_path[c],
   file_handle |-> file_handle[c], out |-> out[c], fs |-> fs,
   closing |-> FALSE, raised |-> FALSE]

\* The state after a callback of connection c left its session as s.
Store(c, s) ==
  /\ receiving_file' = [receiving_file EXCEPT ![c] = s.receiving_file]
  /\ file_cksm' = [file_cksm EXCEPT ![c] = s.file_cksm]
  /\ receiving_files' = [receiving_files EXCEPT ![c] = s.receiving_files]
  /\ num_files_total' = [num_files_total EXCEPT ![c] = s.num_files_total]
  /\ num_files_left' = [num_files_left EXCEPT ![c] = s.num_files_left]
  /\ file_data_left' = [file_data_left EXCEPT ![c] = s.file_data_left]
  /\ receiving_type' = [receiving_type EXCEPT ![c] = s.receiving_type]
  /\ file_path' = [file_path EXCEPT ![c] = s.file_path]
  /\ file_handle' = [file_handle EXCEPT ![c] = s.file_handle]
  /\ out' = [out EXCEPT ![c] = s.out]
  /\ fs' = s.fs

\* No message object: a fresh XBDMCommand that nothing was done with.
NoMsg ==
  [pc |-> "none", m |-> LibCommand, calls |-> 0, out |-> [err |-> FALSE, v |-> <<>>],
   back |-> [err |-> FALSE, cmd |-> LibCommand],
   again |-> [err |-> FALSE, v |-> <<>>],
   asked |-> <<>>, lc_check |-> TRUE, got |-> None]

\* No CRC32 object was fed: a fresh CRC32(0xFFFFFFFF, 0xEDB88320).
NoCrc ==
  [pc |-> "none", obj |-> NewCRC32(CRC_IV, CRC_POLY), data |-> <<>>, rest |-> <<>>,
   sent |-> [err |-> FALSE, v |-> <<>>]]

\* No line was given to the lexers.
NoLex ==
  [pc |-> "none", line |-> <<>>, server |-> [err |-> FALSE, toks |-> <<>>],
   lib |-> [err |-> FALSE, toks |-> <<>>]]

\* The class attributes of XBDMServerProtocol, before any connection, with
\* the sandbox as the server finds it.
InitServer(scripts, sandbox, clients) ==
  /\ conn = [c \in Conns |-> "listening"]
  /\ receiving_file = [c \in Conns |-> FALSE]
  /\ file_cksm = [c \in Conns |-> 0]
  /\ receiving_files = [c \in Conns |-> FALSE]
  /\ num_files_total = [c \in Conns |-> 0]
  /\ num_files_left = [c \in Conns |-> 0]
  /\ file_data_left = [c \in Conns |-> 0]
  /\ receiving_type = [c \in Conns |-> "NONE"]
  /\ file_path = [c \in Conns |-> <<>>]
  /\ file_handle = [c \in Conns |-> NoHandle]
  /\ out = [c \in Conns |-> <<>>]
  /\ fs = sandbox
  /\ inbound = [c \in Conns |-> <<>>]
  /\ seen = [c \in Conns |-> 0]
  /\ script = scripts
  /\ todo = [c \in Conns |-> scripts[c].phases]
  /\ client = clients

\* The same, in a program that builds no message of its own.
InitIn(scripts, sandbox, clients) ==
  InitServer(scripts, sandbox, clients) /\ msg = NoMsg /\ crc = NoCrc /\ lex = NoLex

\* A connection that no operation of the client library uses.
NoClient ==
  [op |-> "none", pc |-> 0, sock |-> "none", rd |-> 0, sent |-> <<>>, last |-> <<>>,
   buf |-> None, size |-> 0, lines |-> 0, file |-> <<>>, ret |-> "running"]

\* The same, in an empty working directory, with clients that run scripts.
InitWith(scripts) == InitIn(scripts, <<>>, [c \in Conns |-> NoClient])

\* One client runs a script; the other connections stay unused.
Init == \E sc \in Scripts : InitWith([c \in Conns |-> IF c = 1 THEN sc ELSE IdleScript])

\* loop.create_server accepts a connection: connection_made.
Accept(c) ==
  /\ conn[c] = "listening"
  /\ conn' = [conn EXCEPT ![c] = "open"]
  /\ Store(c, connection_made(Session(c)))
  /\ UNCHANGED <<inbound, todo, seen, script, client, objs>>

\* The client sends its next phase, without waiting for the server.
ClientWrite(c) ==
  /\ conn[c] = "open"
  /\ todo[c] # <<>>
  /\ inbound' = [inbound EXCEPT ![c] = @ \o todo[c][1].data]
  /\ todo' = [todo EXCEPT ![c] = Tail(@)]
  /\ seen' = [seen EXCEPT ![c] = Len(out[c])]
  /\ UNCHANGED <<conn, regs, out, fs, script, client, objs>>

\* The transport after data_received returned s: transport.close() moves it
\* to closing, and so does an exception that leaves the callback (the event
\* loop of a POSIX host, the selector event loop, closes the transport on
\* it).  A closing transport delivers no more data.
AfterCallback(c, s) ==
  conn' = [conn EXCEPT ![c] = IF s.closing \/ s.raised THEN "closing" ELSE "open"]

\* The event loop reads the next k bytes, any segment of what was sent, and
\* calls data_received.
DataReceived(c) ==
  /\ conn[c] = "open"
  /\ \E k \in 1..Len(inbound[c]) :
       LET s == data_received(Session(c), Take(inbound[c], k)) IN
       /\ Store(c, s)
       /\ AfterCallback(c, s)
       /\ inbound' = [inbound EXCEPT ![c] = Drop(@, k)]
  /\ UNCHANGED <<todo, seen, script, client, objs>>

\* eof_received: the client closed its side; the protocol closes the transport.
EofReceived(c) ==
  /\ conn[c] = "open"
  /\ inbound[c] = <<>>
  /\ conn' = [conn EXCEPT ![c] = "closing"]
  /\ UNCHANGED <<regs, out, fs, inbound, todo, seen, script, client, objs>>

\* connection_lost after the transport closed: the protocol does nothing.
ConnectionLost(c) ==
  /\ conn[c] = "closing"
  /\ conn' = [conn EXCEPT ![c] = "lost"]
  /\ UNCHANGED <<regs, out, fs, inbound, todo, seen, script, client, objs>>

\* connection_lost on an open transport (the peer reset the connection).
ConnectionReset(c) ==
  /\ conn[c] = "open"
  /\ conn' = [conn EXCEPT ![c] = "lost"]
  /\ UNCHANGED <<regs, out, fs, inbound, todo, seen, script, client, objs>>

Next ==
  \E c \in {1} :
    \/ Accept(c)
    \/ ClientWrite(c)
    \/ DataReceived(c)
    \/ EofReceived(c)
    \/ ConnectionLost(c)
    \/ ConnectionReset(c)

Spec == Init /\ [][Next]_vars


----------------------------------------------------------------------------
\* The library client against the server: SpecConc.  Every connection runs
\* send_file of xbdm_common.py: it reads the reply to what it sent before it
\* sends the next command line, a command line is one write and reaches the
\* server as one read, and the file body reaches it in any segmentation.

InitConc == InitWith([c \in Conns |-> SendFileScript(c)])

\* The client of connection c writes: a whole command line once it has read
\* a reply, or the next piece of the file body.
ClientSend(c) ==
  /\ conn[c] = "open"
  /\ todo[c] # <<>>
  /\ inbound[c] = <<>>
  /\ todo[c][1].await => Len(out[c]) > seen[c]
  /\ \E k \in (IF todo[c][1].line THEN {Len(todo[c][1].data)} ELSE 1..Len(todo[c][1].data)) :
       /\ inbound' = [inbound EXCEPT ![c] = Take(todo[c][1].data, k)]
       /\ todo' = [todo EXCEPT ![c] =
                     IF k = Len(todo[c][1].data) THEN Tail(@)
                     ELSE <<[data |-> Drop(todo[c][1].data, k), line |-> FALSE, await |-> FALSE]>>
                            \o Tail(@)]
  /\ seen' = [seen EXCEPT ![c] = Len(out[c])]
  /\ UNCHANGED <<conn, regs, out, fs, script, client, objs>>

\* The event loop reads what the client wrote and calls data_received.
DataReceivedWhole(c) ==
  /\ conn[c] = "open"
  /\ inbound[c] # <<>>
  /\ LET s == data_received(Session(c), inbound[c]) IN
       /\ Store(c, s)
       /\ AfterCallback(c, s)
  /\ inbound' = [inbound EXCEPT ![c] = <<>>]
  /\ UNCHANGED <<todo, seen, script, client, objs>>

NextConc ==
  \E c \in Conns :
    \/ Accept(c)
    \/ ClientSend(c)
    \/ DataReceivedWhole(c)
    \/ ConnectionLost(c)

\* A read of connection c is pending.
ReadPending(c) == conn[c] = "open" /\ inbound[c] # <<>>

\* Weak fairness of DataReceivedWhole(c).  data_received is defined for every
\* read, so that the step is possible exactly when a read is pending, and
\* WF_vars(DataReceivedWhole(c)) is the formula below.
FairRead(c) == []<>(~ReadPending(c)) \/ []<><<DataReceivedWhole(c)>>_vars

\* The event loop runs every ready callback, and every client goes on.
FairConc ==
  \A c \in Conns :
    /\ WF_vars(Accept(c))
    /\ WF_vars(ClientSend(c))
    /\ FairRead(c)
    /\ WF_vars(ConnectionLost(c))

SpecConc == InitConc /\ [][NextConc]_vars /\ FairConc

----------------------------------------------------------------------------
\* Vocabulary of the properties.

\* Words of the replies, as written to the transport.
Greeting == R_connected \o CRLF
SendBinaryLine == R_send_binary \o CRLF
BinaryFollowsLine == R_binary_follows \o CRLF
OkLine == R_ok \o CRLF
ByeLine == R_bye \o CRLF

\* The session is in Command mode.
CommandMode(c) == ~receiving_file[c] /\ ~receiving_files[c]

\* The bytes of the script of c that the server has not read.
RECURSIVE PhasesLen(_)
PhasesLen(ps) == IF ps = <<>> THEN 0 ELSE Len(ps[1].data) + PhasesLen(Tail(ps))
Unread(c) == Len(inbound[c]) + PhasesLen(todo[c])
Consumed(c) == PhasesLen(script[c].phases) - Unread(c)

\* This step is a call of data_received on connection c; Delivered(c) is the
\* read it was called with.
Reads(c) == conn[c] = "open" /\ todo'[c] = todo[c] /\ Len(inbound'[c]) < Len(inbound[c])
Delivered(c) == SubSeq(inbound[c], 1, Len(inbound[c]) - Len(inbound'[c]))

----------------------------------------------------------------------------
\* Properties.

\* The file a single-file upload script declares, and a multi-file script's.
UploadFile(c) == script[c].files[1]
IsUpload(c) == script[c].kind \in {"sendfile", "xbupdate"}

\* C1: after a sendfile or an xbupdate!sysfileupd size= command of declared
\* length n, whatever the segmentation of the bytes that follow, the sink
\* holds only bytes among the first n of the body: at every moment the file
\* is a prefix of the declared body.
C1_SinkHoldsOnlyDeclaredBytes ==
  \A c \in Conns :
    (IsUpload(c) /\ UploadFile(c).path \in DOMAIN fs)
      => startswith(UploadFile(c).data, fs[UploadFile(c).path])

\* C4: however the bytes of a command line are split into reads, once the
\* server has read exactly the BoxID line its output is what the whole line
\* in one read gives, the reply to BoxID, and it is in Command mode.
C4_SplitLineAsWholeLine ==
  \A c \in Conns :
    (script[c].kind = "simple" /\ Consumed(c) = Len(script[c].phases[1].data))
      => /\ out[c] = Greeting \o R_boxid \o CRLF
         /\ CommandMode(c)

\* C7: whenever a session is in Command mode or its connection is gone, it
\* holds no open file handle.
C7_NoOpenSinkOutsideReceive ==
  \A c \in Conns :
    (CommandMode(c) \/ conn[c] = "lost") => ~file_handle[c].open

\* What the server writes when it enters multi-file receive mode for
\* NumFiles files, and its acknowledgement once no file is left.
MultiStart == SendBinaryLine \o BinaryFollowsLine \o Nul4(NumFiles)
MultiAck == BinaryFollowsLine \o Nul4(NumFiles)

MultiFile(c, i) == script[c].files[i]

\* The server has read the sendvfile line and every header and body.
TransferRead(c) ==
  Consumed(c) >= Len(script[c].phases[1].data) + Len(script[c].phases[2].data)

\* C2: a sendvfile of NumFiles files, in whatever segmentation its headers
\* and bodies are read: once the server has entered multi-file receive mode
\* and has read every header and body, each file holds exactly its declared
\* bytes, the acknowledgement of 4 * NumFiles NUL bytes follows the opening
\* replies, and the session is in Command mode.
C2_MultiFileTransferExact ==
  \A c \in Conns :
    (/\ script[c].kind = "sendvfile"
     /\ startswith(out[c], Greeting \o MultiStart)
     /\ TransferRead(c))
      => /\ \A i \in 1..NumFiles :
              /\ MultiFile(c, i).path \in DOMAIN fs
              /\ fs[MultiFile(c, i).path] = MultiFile(c, i).data
         /\ startswith(out[c], Greeting \o MultiStart \o MultiAck)
         /\ CommandMode(c)

\* A read in multi-file body mode that carries more than file i still lacks:
\* the sink of file i is open, holds the start of its body, and the read is
\* longer than the rest of it.
FragmentedRead(c, i) ==
  /\ script[c].kind = "sendvfile"
  /\ Reads(c)
  /\ receiving_files[c]
  /\ num_files_left[c] = NumFiles + 1 - i
  /\ file_handle[c].open
  /\ file_handle[c].path = MultiFile(c, i).path
  /\ startswith(MultiFile(c, i).data, fs[MultiFile(c, i).path])
  /\ file_data_left[c] = Len(MultiFile(c, i).data) - Len(fs[MultiFile(c, i).path])
  /\ file_data_left[c] > 0
  /\ Len(Delivered(c)) > file_data_left[c]

\* C3: a read in multi-file body mode that carries more than the current
\* file lacks completes that file, takes it off the files counter, and gives
\* the rest of the read to the next file, which exists afterwards and holds
\* bytes of its own body only.
C3_FragmentedReadServesBothFiles ==
  [][\A c \in Conns : \A i \in 1..(NumFiles - 1) :
       FragmentedRead(c, i)
         => /\ fs'[MultiFile(c, i).path] = MultiFile(c, i).data
            /\ num_files_left'[c] <= NumFiles - i
            /\ MultiFile(c, i + 1).path \in DOMAIN fs'
            /\ startswith(MultiFile(c, i + 1).data, fs'[MultiFile(c, i + 1).path])]_vars

\* The terminator of a single-file upload of the given receiving_type.
Terminator(type) ==
  IF type = "XBUPDATE_SINGLE" THEN OkLine ELSE BinaryFollowsLine \o Nul4(1)

\* C5: in single-file receive mode, the step in which the remaining-bytes
\* counter reaches 0 closes the sink, appends the terminator of the upload
\* once (200- OK for an xbupdate upload, 203- binary response follows and 4
\* NUL bytes for a sendfile) and returns to Command mode; and a step that
\* appends the terminator is one that leaves the counter at 0.
C5_TerminatorWhenCounterReachesZero ==
  [][\A c \in Conns :
       receiving_file[c] =>
         /\ (file_data_left[c] # 0 /\ file_data_left'[c] = 0)
              => /\ ~file_handle'[c].open
                 /\ out'[c] = out[c] \o Terminator(receiving_type[c])
                 /\ CommandMode(c)'
         /\ out'[c] = out[c] \o Terminator(receiving_type[c])
              => (file_data_left[c] > 0 /\ file_data_left'[c] = 0)]_vars

\* An upload, sendfile or xbupdate, has been completed:
\* the file holds the declared body and the terminator closes the output.
C5_Witness ==
  /\ IsUpload(1)
  /\ CommandMode(1)
  /\ conn[1] = "open"
  /\ UploadFile(1).path \in DOMAIN fs
  /\ fs[UploadFile(1).path] = UploadFile(1).data
  /\ out[1] = Greeting \o SendBinaryLine
                \o Terminator(IF script[1].kind = "xbupdate" THEN "XBUPDATE_SINGLE"
                              ELSE "SENDFILE_SINGLE")

\* C6: a read in Command mode that is the line sendvfile COUNT=NumFiles
\* appends 204- send binary data, 203- binary response follows and
\* 4 * NumFiles NUL bytes, in this order, and leaves the session in
\* multi-file receive mode with NumFiles files left and no open sink.
C6_SendVFileEntersMultiMode ==
  [][\A c \in Conns :
       (/\ script[c].kind = "sendvfile"
        /\ Reads(c)
        /\ CommandMode(c)
        /\ Delivered(c) = script[c].phases[1].data)
         => /\ out'[c] = out[c] \o SendBinaryLine \o BinaryFollowsLine \o Nul4(NumFiles)
            /\ receiving_files'[c] /\ ~receiving_file'[c]
            /\ num_files_left'[c] = NumFiles
            /\ num_files_total'[c] = NumFiles
            /\ ~file_handle'[c].open
            /\ conn'[c] = "open"]_vars

\* The session has just entered multi-file receive mode.
C6_Witness ==
  /\ script[1].kind = "sendvfile"
  /\ out[1] = Greeting \o MultiStart
  /\ receiving_files[1]
  /\ num_files_left[1] = NumFiles
  /\ ~file_handle[1].open

\* The registers of the session of c are as reset leaves them.
RegistersReset(c) ==
  /\ CommandMode(c)
  /\ ~file_handle[c].open
  /\ file_cksm[c] = 0
  /\ num_files_total[c] = 0
  /\ num_files_left[c] = 0
  /\ file_data_left[c] = 0
  /\ receiving_type[c] = "NONE"
  /\ file_path[c] = <<>>

\* C9: before a connection is accepted the server has written nothing on it
\* and read nothing from it; accepting it writes exactly 201- connected and
\* the line ending and leaves the registers reset; and whatever the server
\* writes later follows that greeting.
C9_GreetingFirst ==
  /\ [](\A c \in Conns :
          /\ conn[c] = "listening" => (out[c] = <<>> /\ Consumed(c) = 0)
          /\ conn[c] # "listening" => startswith(out[c], Greeting))
  /\ [][\A c \in Conns :
          (conn[c] = "listening" /\ conn'[c] # "listening")
            => /\ out'[c] = Greeting
               /\ RegistersReset(c)'
               /\ Consumed(c)' = 0]_vars

\* A connection was accepted and greeted, and its client has sent something
\* that is not read yet.
C9_Witness ==
  /\ conn[1] = "open"
  /\ out[1] = Greeting
  /\ inbound[1] # <<>>
  /\ RegistersReset(1)

\* C10: a read in Command mode that is the line bye, in any letter case,
\* appends 200- bye and the line ending and closes the connection; and once
\* a connection is closed nothing more is written on it and no more of its
\* inbound data is read.
C10_ByeAnswersAndCloses ==
  [][\A c \in Conns :
       /\ (/\ Reads(c)
           /\ CommandMode(c)
           /\ endswith(Delivered(c), CRLF)
           /\ lower(format_command(Delivered(c))) = V_bye)
            => (out'[c] = out[c] \o ByeLine /\ conn'[c] = "closing")
       /\ conn[c] \in {"closing", "lost"}
            => /\ out'[c] = out[c]
               /\ conn'[c] \in {"closing", "lost"}
               /\ Consumed(c)' = Consumed(c)]_vars

\* The line ByE was answered and the connection closed, with nothing written
\* after the answer.
C10_Witness ==
  /\ script[1].kind = "simple"
  /\ conn[1] \in {"closing", "lost"}
  /\ out[1] = Greeting \o R_boxid \o CRLF \o ByeLine

\* The upload of connection c is complete: its file holds the body sent on
\* c, and the terminator follows the reply to the command.
Completed(c) ==
  /\ UploadFile(c).path \in DOMAIN fs
  /\ fs[UploadFile(c).path] = UploadFile(c).data
  /\ startswith(out[c], Greeting \o SendBinaryLine \o Terminator("SENDFILE_SINGLE"))

\* The session of c holds nothing of another connection: its file holds
\* bytes of its own body only, and its path and sink are its own.
Isolated(c) ==
  /\ UploadFile(c).path \in DOMAIN fs
       => startswith(UploadFile(c).data, fs[UploadFile(c).path])
  /\ file_path[c] \in {<<>>, UploadFile(c).path}
  /\ file_handle[c].open => file_handle[c].path = UploadFile(c).path
  /\ file_data_left[c] \in 0..BodyLen

\* C8: NumConns clients upload at once, each with sendfile to a path of its
\* own, each waiting for the reply to its command before it sends the body
\* and for the terminator before it sends bye.  Under every interleaving of
\* the reads and every segmentation of the bodies, no session ever holds a
\* byte, a path or a sink of another connection, and every upload completes
\* with the bytes of its own connection.
C8_ConcurrentUploadsComplete ==
  /\ [](\A c \in Conns : Isolated(c))
  /\ \A c \in Conns : <>[]Completed(c)

\* Every upload is complete and every connection is closed after its bye.
C8_Witness ==
  \A c \in Conns :
    /\ script[c].kind = "sendfile"
    /\ Completed(c)
    /\ conn[c] = "lost"
    /\ endswith(out[c], ByeLine)

----------------------------------------------------------------------------
\* The file and listing commands: SpecCmd.  A client sends one command line,
\* then bye, to a server that starts in an empty working directory or in a
\* sandbox that holds files and directories.

\* The command lines of the clients, without their line ending.
\*  1  frob
\*  2  a "b
\*  3  
\*  4  200- OK
\*  5  getfile NAME="g"
\*  6  mkdir NAME="d"
\*  7  rename NAME="g" NEWNAME="h"
\*  8  drivelist
\*  9  dirlist NAME="d"
\* 10  getfileattributes NAME="g"
\* 11  systeminfo
\* 12  modules
\* 13  drivefreespace NAME="HDD"
\* 14  userlist
\* 15  magicboot
\* 16  magicboot title="a" directory="b" cold
CommandLines ==
  <<<<102, 114, 111, 98>>,
    <<97, 32, 34, 98>>,
    <<>>,
    <<50, 48, 48, 45, 32, 79, 75>>,
    <<103, 101, 116, 102, 105, 108, 101, 32, 78, 65, 77, 69, 61, 34, 103, 34>>,
    <<109, 107, 100, 105, 114, 32, 78, 65, 77, 69, 61, 34, 100, 34>>,
    <<114, 101, 110, 97, 109, 101, 32, 78, 65, 77, 69, 61, 34, 103, 34, 32, 78, 69, 87, 78, 65, 77, 69, 61, 34, 104, 34>>,
    <<100, 114, 105, 118, 101, 108, 105, 115, 116>>,
    <<100, 105, 114, 108, 105, 115, 116, 32, 78, 65, 77, 69, 61, 34, 100, 34>>,
    <<103, 101, 116, 102, 105, 108, 101, 97, 116, 116, 114, 105, 98, 117, 116, 101, 115, 32, 78, 65, 77, 69, 61, 34, 103, 34>>,
    <<115, 121, 115, 116, 101, 109, 105, 110, 102, 111>>,
    <<109, 111, 100, 117, 108, 101, 115>>,
    <<100, 114, 105, 118, 101, 102, 114, 101, 101, 115, 112, 97, 99, 101, 32, 78, 65, 77, 69, 61, 34, 72, 68, 68, 34>>,
    <<117, 115, 101, 114, 108, 105, 115, 116>>,
    <<109, 97, 103, 105, 99, 98, 111, 111, 116>>,
    <<109, 97, 103, 105, 99, 98, 111, 111, 116, 32, 116, 105, 116, 108, 101, 61, 34, 97, 34, 32, 100, 105, 114, 101, 99, 116, 111, 114, 121, 61, 34, 98, 34, 32, 99, 111, 108, 100>>>>

CommandScript(i) ==
  [kind |-> "command", phases |-> <<Line(CommandLines[i]), Line(C_bye)>>, files |-> <<>>]

\* fsys with the regular file path of content data, and its directories.
WithFile(fsys, path, data) ==
  LET f == makedirs(fsys, parent(path))
  IN [p \in DOMAIN f \cup {path} |-> IF p = path THEN data ELSE f[p]]

\* A sandbox: the file g of BodyLen bytes, the drive HDD, and the directory d
\* with the directory e and the file x of one byte in it.
Sandbox ==
  LET root == absolute(PurePath(LOCAL_DIR))
      f1 == WithFile(<<>>, root \o <<47, 103>>, Body(BodyLen, 1))
      f2 == WithFile(f1, root \o <<47, 100, 47, 120>>, Body(1, 120))
  IN makedirs(makedirs(f2, root \o <<47, 72, 68, 68>>), root \o <<47, 100, 47, 101>>)

InitCmd ==
  \E i \in 1..Len(CommandLines), sandbox \in {<<>>, Sandbox} :
    InitIn([c \in Conns |-> IF c = 1 THEN CommandScript(i) ELSE IdleScript], sandbox,
           [c \in Conns |-> NoClient])

SpecCmd == InitCmd /\ [][Next]_vars

----------------------------------------------------------------------------
\* Vocabulary of the properties of the commands.

\* What the step writes on connection c.
Written(c) == Drop(out'[c], Len(out[c]))

\* d is one complete command line: a line ending closes it and no other is
\* in it.
OneLine(d) == endswith(d, CRLF) /\ Find(Take(d, Len(d) - 2), CRLF) = 0

\* This step is a call of data_received in Command mode with one complete
\* command line.
ReadsLine(c) == Reads(c) /\ CommandMode(c) /\ OneLine(Delivered(c))

\* The line parses into a command with a verb; Parsed(d) is that command.
Parsed(d) == parse(format_command(d)).cmd
WellFormed(d) ==
  DecodeOk(d) /\ ~parse(format_command(d)).err /\ Parsed(d).name.some
VerbOf(d) == lower(Parsed(d).name.v)

\* The verbs that have a case of their own in the match statement.
Verbs ==
  OkVerbs \cup XbOkVerbs \cup XbLineVerbs \cup
               {V_boxid, V_sysfileupd, V_sendvfile, V_sendfile, V_getuserpriv, V_bye,
                V_systeminfo, V_drivelist, V_modules, V_drivefreespace, V_dirlist,
                V_getfileattributes, V_mkdir, V_getfile, V_rename, V_delete, V_userlist,
                V_magicboot}

\* The registers of the session of connection c.
Registers(c) ==
  <<receiving_file[c], file_cksm[c], receiving_files[c], num_files_total[c],
    num_files_left[c], file_data_left[c], receiving_type[c], file_path[c], file_handle[c]>>

\* Words of the replies.
UnknownCommandLine == UNKNOWN_COMMAND \o CRLF
MultiLineLine == R_multiline \o CRLF
DotLine == R_dot \o CRLF

\* C11: a read in Command mode that is one complete command line whose verb
\* has no case of its own appends 405- unknown command and the line ending,
\* and leaves the session in Command mode and the connection open.
C11_UnknownVerbAnswered ==
  [][\A c \in Conns :
       (ReadsLine(c) /\ WellFormed(Delivered(c)) /\ VerbOf(Delivered(c)) \notin Verbs)
         => /\ out'[c] = out[c] \o UnknownCommandLine
            /\ CommandMode(c)'
            /\ conn'[c] = "open"]_vars

\* A line is malformed when its text does not decode, when the lexer rejects
\* it (an unterminated quote), when it has no token (an empty line), or when
\* its first token is a reply code and no verb.
Malformed(d) == ~WellFormed(d)

\* C12: a read in Command mode that is one complete malformed line is
\* answered with a reply of status 405; the session stays in Command mode,
\* the connection stays open and the registers keep their values.
C12_MalformedLineAnswered ==
  [][\A c \in Conns :
       (ReadsLine(c) /\ Malformed(Delivered(c)))
         => /\ startswith(Written(c), STATUS_405)
            /\ endswith(Written(c), CRLF)
            /\ CommandMode(c)'
            /\ conn'[c] = "open"
            /\ Registers(c)' = Registers(c)]_vars

\* The line is the command verb with the parameter NAME; NameOf(d) is the
\* physical path of its NAME.
Names(d, verb) == WellFormed(d) /\ VerbOf(d) = verb /\ param_exists(Parsed(d), K_name)
NameOf(d) == xbdm_to_local_path(as_str(get_param(Parsed(d), K_name)))

\* C13: a read in Command mode that is the line getfile NAME=p appends, when
\* p is a regular file of content B, 203- binary response follows, the
\* little-endian 32-bit length of B and B, and otherwise one line of status
\* 402; the session stays in Command mode.
C13_GetFileAnswersOnce ==
  [][\A c \in Conns :
       (ReadsLine(c) /\ Names(Delivered(c), V_getfile))
         => LET p == NameOf(Delivered(c)) IN
            /\ isfile(fs, p)
                 => Written(c) = BinaryFollowsLine \o LE32Bytes(Len(fs[p])) \o fs[p]
            /\ ~isfile(fs, p)
                 => (startswith(Written(c), STATUS_402) /\ OneLine(Written(c)))
            /\ CommandMode(c)']_vars

\* C14: a read in Command mode that is a line mkdir with NAME, or a line
\* rename with NAME and NEWNAME, appends 200- OK and the line ending,
\* whatever the sandbox holds.
C14_MkdirRenameAnswered ==
  [][\A c \in Conns :
       (/\ ReadsLine(c)
        /\ \/ Names(Delivered(c), V_mkdir)
           \/ Names(Delivered(c), V_rename) /\ param_exists(Parsed(Delivered(c)), K_newname))
         => Written(c) = OkLine]_vars

\* The lines of a text that ends with a line ending.
RECURSIVE SplitLines(_)
SplitLines(t) ==
  IF t = <<>> THEN <<>>
  ELSE LET j == Find(t, CRLF) IN <<Take(t, j - 1)>> \o SplitLines(Drop(t, j + 1))

\* w is a multi-line reply of n sub-lines: the line 202- multiline response
\* follows, n lines that are neither empty nor the terminator, the line of
\* one dot, and nothing after it.
Framed(w, n) ==
  /\ endswith(w, CRLF)
  /\ LET ls == SplitLines(w) IN
     /\ Len(ls) = n + 2
     /\ ls[1] = R_multiline
     /\ ls[Len(ls)] = R_dot
     /\ \A i \in 2..(Len(ls) - 1) : ls[i] # <<>> /\ ls[i] # R_dot

\* The verbs of the multi-line replies, and the number of sub-lines of the
\* reply to line d in file system fsys.
MultiLineVerbs ==
  {V_drivelist, V_dirlist, V_getfileattributes, V_systeminfo, V_modules, V_drivefreespace,
   V_userlist}
Entries(fsys, path) ==
  {p \in Below(fsys, path) : Len(p) > Len(path) + 1
                              /\ IndexFrom(p, 47, Len(path) + 2) \in {0, Len(p)}}
SubLines(d, fsys) ==
  IF VerbOf(d) = V_drivelist
  THEN Cardinality({p \in Entries(fsys, absolute(PurePath(LOCAL_DIR))) : p[Len(p)] = 47})
  ELSE IF VerbOf(d) = V_dirlist THEN Cardinality(Entries(fsys, NameOf(d)))
  ELSE IF VerbOf(d) = V_systeminfo THEN 4
  ELSE IF VerbOf(d) = V_modules THEN Len(cfg.modules)
  ELSE 1

\* C15: a read in Command mode that is a line of a multi-line command, and
\* that is answered with anything but an error line, appends exactly the
\* line 202- multiline response follows, one line for each entry to report,
\* each with one line ending, and the line of one dot; the session stays in
\* Command mode; and nothing is written on a connection but by a callback of
\* its protocol.
C15_MultiLineFramed ==
  [][\A c \in Conns :
       /\ (/\ ReadsLine(c)
           /\ WellFormed(Delivered(c))
           /\ VerbOf(Delivered(c)) \in MultiLineVerbs
           /\ Written(c) # <<>>
           /\ ~startswith(Written(c), STATUS_402))
            => /\ Framed(Written(c), SubLines(Delivered(c), fs'))
               /\ CommandMode(c)'
       /\ out'[c] # out[c] => (Reads(c) \/ conn[c] = "listening")]_vars

\* The listing of directory d, with its file and its directory, was sent
\* after the greeting, framed, and the session is in Command mode.
C15_Witness ==
  /\ conn[1] = "open"
  /\ CommandMode(1)
  /\ startswith(out[1], Greeting \o MultiLineLine)
  /\ Framed(Drop(out[1], Len(Greeting)), 2)
  /\ Find(out[1], R_dir_attrs) > 0

\* C16: a read in Command mode that is a line magicboot appends 200- OK and
\* the line ending, and closes the connection.
C16_MagicBootAnswersAndCloses ==
  [][\A c \in Conns :
       (ReadsLine(c) /\ WellFormed(Delivered(c)) /\ VerbOf(Delivered(c)) = V_magicboot)
         => (Written(c) = OkLine /\ conn'[c] = "closing")]_vars

----------------------------------------------------------------------------
\* The client library of xbdm_common.py and the client of neighborhood.py
\* against the server: SpecLib.  An operation is a straight program of
\* blocking calls on its own connection; client[c] holds the operation of
\* connection c, its position pc in the program (0 before connect), its
\* socket, the count rd of the bytes of out[c] it has read, the bytes it has
\* sent, the last line it read, the result buf of its last read(n), the size
\* it unpacked (the count read_to has yet to read), the count of sub-lines
\* read_multi_lines collected, the local file get_file writes, and whether
\* the operation is running, returned or raised.

\* The size of one chunk of AsyncXBDMClient.read, read_to and write.
XBDM_BUFF_SIZE == 1460

\* XBDMCommand.value_to_output of a DWORD: "0x0", or "0x" and the upper case
\* hexadecimal digits without leading zeros.
dword_to_output(value) == S_0x \o HexStr(value)

\* XBDMCommand.get_output(True) of xbdm_common.py for a command: the name,
\* the parameters as key=value with the keys as they were set, the flags,
\* the line ending.  args holds <<key, output value>> pairs.
client_get_output(name, args, flags) ==
  name
    \o (IF args = <<>> THEN <<>>
        ELSE <<32>> \o join(<<32>>, [i \in 1..Len(args) |-> args[i][1] \o <<61>> \o args[i][2]]))
    \o (IF flags = <<>> THEN <<>> ELSE <<32>> \o join(<<32>>, flags))
    \o CRLF

\* The parameter NAME="<path>", and the same for NEWNAME.
name_param(key, path) == <<key, quoted(path)>>

\* The code of XBDMCommand.parse of xbdm_common.py on a reply line: the
\* line is stripped and split by XBDMShlex; a first token that ends with '-'
\* gives int() of what precedes it, any other first token leaves the code 0.
\* err when shlex raised, when parts[0] raised IndexError or int() raised
\* ValueError.  The lexer of the library takes only '"' as a quote; no line
\* of this model holds an apostrophe, and leading whitespace is skipped by
\* the lexer as by strip().
reply_code(line) ==
  LET Code(first) ==
        IF first[Len(first)] # 45 THEN [err |-> FALSE, code |-> 0]
        ELSE IF Len(first) > 1 /\ \A i \in 1..(Len(first) - 1) : IsDigit(first[i])
        THEN [err |-> FALSE, code |-> DecValue(Take(first, Len(first) - 1))]
        ELSE [err |-> TRUE, code |-> 0]
      Of(l) == IF l.err \/ l.toks = <<>> THEN [err |-> TRUE, code |-> 0] ELSE Code(l.toks[1])
  IN Of(shlex_list(rstrip(line), 1, <<>>))

\* The blocking calls of a program.
\* expect_reply_with_codes(DOMAIN jump), expect_code: readline, parse, assert;
\* the program goes on at jump[code].
Expect(jump) == [i |-> "expect", jump |-> jump]
\* readline and parse, with no assertion on the code.
ReadReply == [i |-> "readline"]
\* send_command, send_bye, writefileobj: write(data).
Send(data) == [i |-> "send", data |-> data]
\* read_multi_commands: readline until the line "." is read.
ReadMultiLines == [i |-> "lines"]
\* self.read(n)
Read(n) == [i |-> "read", n |-> n]
\* (size,) = unpack("<I", ...) of what read returned
Unpack == [i |-> "unpack"]
\* self.read_to(lf, size)
ReadTo == [i |-> "read_to"]
\* disconnect: writer.close()
Disconnect == [i |-> "close"]
\* return, and return reps[0]
Return == [i |-> "return"]
ReturnFirst == [i |-> "return_first"]

\* BaseXBDMClient.recovery with disconnect_with_bye in place of disconnect.
recovery_WithBye ==
  <<Expect(201 :> 2), Send(client_get_output(V_recovery, <<>>, <<>>)),
    Send(XBDM_BYE), Disconnect, Return>>

\* BaseXBDMClient.recovery: connect_and_check, send_command, disconnect.
recovery ==
  <<Expect(201 :> 2), Send(client_get_output(V_recovery, <<>>, <<>>)),
    Disconnect, Return>>

\* BaseXBDMClient.magic_boot
magic_boot(flag) ==
  <<Expect(201 :> 2), Send(client_get_output(V_magicboot, <<>>, <<flag>>)),
    Disconnect, Return>>

\* BaseXBDMClient.get_file_attributes: on 202 it returns the first sub-line
\* (position 5); disconnect_with_bye is reached on 402 only (position 6).
get_file_attributes(remote_path) ==
  <<Expect(201 :> 2),
    Send(client_get_output(V_getfileattributes, <<name_param(Q_NAME, remote_path)>>, <<>>)),
    Expect(202 :> 4 @@ 402 :> 6),
    ReadMultiLines, ReturnFirst,
    Send(XBDM_BYE), Disconnect, Return>>

\* BaseXBDMClient.dirlist
dirlist(remote_path) ==
  <<Expect(201 :> 2),
    Send(client_get_output(V_dirlist, <<name_param(Q_NAME, remote_path)>>, <<>>)),
    Expect(202 :> 4 @@ 402 :> 5),
    ReadMultiLines,
    Send(XBDM_BYE), Disconnect, Return>>

\* BaseXBDMClient.mkdir
mkdir(remote_path) ==
  <<Expect(201 :> 2),
    Send(client_get_output(V_mkdir, <<name_param(Q_NAME, remote_path)>>, <<>>)),
    Expect(200 :> 4),
    Send(XBDM_BYE), Disconnect, Return>>

\* BaseXBDMClient.rename: the name it sets is "mkdir".
client_rename(old_remote_path, new_remote_path) ==
  <<Expect(201 :> 2),
    Send(client_get_output(V_mkdir, <<name_param(Q_NAME, old_remote_path),
                                     name_param(Q_NEWNAME, new_remote_path)>>, <<>>)),
    Expect(200 :> 4),
    Send(XBDM_BYE), Disconnect, Return>>

\* BaseXBDMClient.delete
delete(remote_path) ==
  <<Expect(201 :> 2),
    Send(client_get_output(V_delete, <<name_param(Q_NAME, remote_path)>>, <<>>)),
    Expect(200 :> 4 @@ 402 :> 4),
    Send(XBDM_BYE), Disconnect, Return>>

\* BaseXBDMClient.send_file of a local file of content data: on 204
\* writefileobj, then expect_ok; on 430 straight to disconnect_with_bye.
send_file(data, remote_path) ==
  <<Expect(201 :> 2),
    Send(client_get_output(Q_SENDFILE, <<name_param(Q_NAME, remote_path),
                                        <<Q_LENGTH, dword_to_output(Len(data))>>>>, <<>>)),
    Expect(204 :> 4 @@ 430 :> 6),
    Send(data), Expect(200 :> 6),
    Send(XBDM_BYE), Disconnect, Return>>

\* BaseXBDMClient.get_file: on 203 read(4), unpack, read_to.
get_file(remote_path) ==
  <<Expect(201 :> 2),
    Send(client_get_output(Q_GETFILE, <<name_param(Q_NAME, remote_path)>>, <<>>)),
    Expect(203 :> 4 @@ 402 :> 7),
    Read(4), Unpack, ReadTo,
    Send(XBDM_BYE), Disconnect, Return>>

\* neighborhood.py, send_xbdm_command for a command of this name and no
\* parameters: open_xbdm_connection, the command, one reply line, then
\* writer.close() for recovery and magicboot and close_xbdm_connection (BYE,
\* the reply 200, close) for any other name.
send_xbdm_command(name) ==
  <<Expect(201 :> 2), Send(client_get_output(name, <<>>, <<>>)), ReadReply>>
    \o (IF name \in {V_recovery, V_magicboot} THEN <<Disconnect, Return>>
        ELSE <<Send(XBDM_BYE), Expect(200 :> 6), Disconnect, Return>>)

\* neighborhood.py, send_xbdm_upload_file: the reply to SENDFILE must be 204
\* (on 430 it makes the directory on another connection and the assertion
\* fails all the same), the reply after the file must be 200.
send_xbdm_upload_file(data, remote_path) ==
  <<Expect(201 :> 2),
    Send(client_get_output(Q_SENDFILE, <<name_param(Q_NAME, remote_path),
                                        <<Q_LENGTH, dword_to_output(Len(data))>>>>, <<>>)),
    Expect(204 :> 4),
    Send(data), Expect(200 :> 6),
    Send(XBDM_BYE), Expect(200 :> 8), Disconnect, Return>>

\* The operations a client runs, with their arguments: the remote paths g,
\* d, h and f, and a local file of BodyLen bytes.
Ops ==
  {"recovery", "magic_boot", "get_file_attributes", "dirlist", "mkdir", "rename",
   "delete", "send_file", "get_file", "send_xbdm_command recovery",
   "send_xbdm_command magicboot", "send_xbdm_command boxid", "send_xbdm_upload_file"}

LocalFile == Body(BodyLen, 65)

Program(op) ==
  CASE op = "recovery" -> recovery
    [] op = "magic_boot" -> magic_boot(Q_cold)
    [] op = "get_file_attributes" -> get_file_attributes(<<103>>)
    [] op = "dirlist" -> dirlist(<<100>>)
    [] op = "mkdir" -> mkdir(<<100>>)
    [] op = "rename" -> client_rename(<<103>>, <<104>>)
    [] op = "delete" -> delete(<<103>>)
    [] op = "send_file" -> send_file(LocalFile, <<102>>)
    [] op = "get_file" -> get_file(<<103>>)
    [] op = "send_xbdm_command recovery" -> send_xbdm_command(V_recovery)
    [] op = "send_xbdm_command magicboot" -> send_xbdm_command(V_magicboot)
    [] op = "send_xbdm_command boxid" -> send_xbdm_command(C_boxid)
    [] op = "send_xbdm_upload_file" -> send_xbdm_upload_file(LocalFile, <<102>>)

\* The operation op before it connects.
NewClient(op) == [NoClient EXCEPT !.op = op]

\* A client repeats one operation, on one connection after the other, in a
\* working directory that is empty or holds the sandbox.
InitLib ==
  \E op \in Ops, sandbox \in {<<>>, Sandbox} :
    InitIn([c \in Conns |-> IdleScript], sandbox, [c \in Conns |-> NewClient(op)])

\* The call the operation of connection c is at.
Ins(c) == Program(client[c].op)[client[c].pc]

\* The operation of connection c has connected and has not ended.
Running(c) == client[c].op # "none" /\ client[c].pc > 0 /\ client[c].ret = "running"

\* What the server wrote on connection c and the client has not read, and
\* whether the server closed its side, so that the reader meets the end of
\* the stream after these bytes.
Avail(c) == Drop(out[c], client[c].rd)
AtEof(c) == conn[c] \in {"closing", "lost"}

\* An exception leaves the operation: AssertionError, IncompleteReadError,
\* struct.error, TypeError, IndexError.  Nothing closes the socket.
Raised(cl) == [cl EXCEPT !.ret = "raised"]

\* asyncio.open_connection at the start of an operation, once the operation
\* before it has ended; the server accepts: connection_made.
LibConnect(c) ==
  /\ client[c].op # "none"
  /\ client[c].pc = 0
  /\ c > 1 => client[c - 1].ret # "running"
  /\ conn[c] = "listening"
  /\ conn' = [conn EXCEPT ![c] = "open"]
  /\ Store(c, connection_made(Session(c)))
  /\ client' = [client EXCEPT ![c].pc = 1, ![c].sock = "open"]
  /\ UNCHANGED <<inbound, todo, seen, script, objs>>

\* AsyncXBDMClient.write for data below XBDM_BUFF_SIZE: one writer.write.
LibSend(c) ==
  /\ Running(c)
  /\ Ins(c).i = "send"
  /\ inbound' = [inbound EXCEPT ![c] = @ \o Ins(c).data]
  /\ client' = [client EXCEPT ![c].sent = @ \o Ins(c).data, ![c].pc = @ + 1]
  /\ UNCHANGED <<conn, regs, out, fs, todo, seen, script, objs>>

\* The operation after one readline on avail: reader.readuntil(b"\r\n")
\* returns the bytes through the first line ending, and raises
\* IncompleteReadError when the stream ends before one.
readline(cl, ins, avail) ==
  LET After(cl1, line) ==
        IF ins.i = "lines"
        THEN IF line = R_dot \o CRLF THEN [cl1 EXCEPT !.pc = @ + 1]
             ELSE [cl1 EXCEPT !.lines = @ + 1]
        ELSE IF ins.i = "readline"
        THEN IF reply_code(line).err THEN Raised(cl1) ELSE [cl1 EXCEPT !.pc = @ + 1]
        ELSE IF ~reply_code(line).err /\ reply_code(line).code \in DOMAIN ins.jump
        THEN [cl1 EXCEPT !.pc = ins.jump[reply_code(line).code]]
        ELSE Raised(cl1)
      At(n) ==
        IF n = 0 THEN Raised(cl)
        ELSE After([cl EXCEPT !.rd = @ + n + 1, !.last = Take(avail, n + 1)], Take(avail, n + 1))
  IN At(Find(avail, CRLF))

\* BaseXBDMClient.readline in expect_code, expect_reply_with_codes and
\* read_multi_lines: it blocks until a whole line or the end of the stream
\* has arrived.
LibReadLine(c) ==
  /\ Running(c)
  /\ Ins(c).i \in {"expect", "readline", "lines"}
  /\ Find(Avail(c), CRLF) # 0 \/ AtEof(c)
  /\ client' = [client EXCEPT ![c] = readline(@, Ins(c), Avail(c))]
  /\ UNCHANGED <<conn, regs, out, fs, inbound, todo, seen, script, objs>>

\* reader.read(n) for n > 0 returns k bytes, 1 <= k <= n, as soon as any
\* have arrived: which k is a matter of how the stream reached the socket.
\* At the end of the stream it returns b"" (k = 0).
Chunks(n, avail, eof) ==
  IF avail = <<>> THEN (IF eof THEN {0} ELSE {})
  ELSE 1..Min(Min(n, XBDM_BUFF_SIZE), Len(avail))

\* AsyncXBDMClient.read(size) when reader.read gives k bytes: the return
\* statement is inside the loop, so that the first chunk is the result;
\* the result is None when size <= 0 or the stream is at its end.
read(cl, size, avail, k) ==
  IF size <= 0 \/ k = 0 THEN [cl EXCEPT !.buf = None, !.pc = @ + 1]
  ELSE [cl EXCEPT !.buf = Some(Take(avail, k)), !.rd = @ + k, !.pc = @ + 1]

\* AsyncXBDMClient.read(size) that returns after it collected size bytes.
read_Looping(cl, size, avail, k) ==
  IF size <= 0 \/ k = 0 THEN [cl EXCEPT !.buf = None, !.pc = @ + 1]
  ELSE [cl EXCEPT !.buf = Some(Take(avail, Min(size, Len(avail)))),
                  !.rd = @ + Min(size, Len(avail)), !.pc = @ + 1]

\* One turn of the loop of AsyncXBDMClient.read_to when reader.read gives k
\* bytes: the chunk goes to the file; the loop ends when the count reaches
\* 0 or the stream ends.
read_to(cl, avail, k) ==
  IF cl.size <= 0 \/ k = 0 THEN [cl EXCEPT !.pc = @ + 1]
  ELSE [cl EXCEPT !.file = @ \o Take(avail, k), !.rd = @ + k, !.size = @ - k,
                  !.pc = IF cl.size = k THEN @ + 1 ELSE @]

\* The binary reads of an operation.
LibRead(c) ==
  /\ Running(c)
  /\ \/ /\ Ins(c).i = "read"
        /\ \E k \in (IF Ins(c).n <= 0 THEN {0} ELSE Chunks(Ins(c).n, Avail(c), AtEof(c))) :
             client' = [client EXCEPT ![c] = read(@, Ins(c).n, Avail(c), k)]
     \/ /\ Ins(c).i = "read_to"
        /\ \E k \in (IF client[c].size <= 0 THEN {0}
                     ELSE Chunks(client[c].size, Avail(c), AtEof(c))) :
             client' = [client EXCEPT ![c] = read_to(@, Avail(c), k)]
  /\ UNCHANGED <<conn, regs, out, fs, inbound, todo, seen, script, objs>>

\* int.from_bytes(b, "little")
RECURSIVE from_little(_)
from_little(b) == IF b = <<>> THEN 0 ELSE b[1] + 256 * from_little(Tail(b))

\* unpack("<I", buf): TypeError on None, struct.error unless 4 bytes.
unpack(cl) ==
  IF cl.buf.some /\ Len(cl.buf.v) = 4
  THEN [cl EXCEPT !.size = from_little(cl.buf.v), !.pc = @ + 1]
  ELSE Raised(cl)

\* The calls of an operation that neither read nor write: unpack,
\* disconnect (writer.close()), return, and return reps[0], which raises
\* IndexError on an empty list.
LibLocal(c) ==
  /\ Running(c)
  /\ Ins(c).i \in {"unpack", "close", "return", "return_first"}
  /\ client' = [client EXCEPT ![c] =
                  IF Ins(c).i = "unpack" THEN unpack(@)
                  ELSE IF Ins(c).i = "close" THEN [@ EXCEPT !.sock = "closed", !.pc = @ + 1]
                  ELSE IF Ins(c).i = "return_first" /\ @.lines = 0 THEN Raised(@)
                  ELSE [@ EXCEPT !.ret = "returned"]]
  /\ UNCHANGED <<conn, regs, out, fs, inbound, todo, seen, script, objs>>

\* The client closed its socket: the server reads the end of the stream
\* after the bytes that were sent, and eof_received closes the transport.
LibEof(c) ==
  /\ client[c].sock = "closed"
  /\ EofReceived(c)

NextLib ==
  \E c \in Conns :
    \/ LibConnect(c)
    \/ LibSend(c)
    \/ LibReadLine(c)
    \/ LibRead(c)
    \/ LibLocal(c)
    \/ DataReceivedWhole(c)
    \/ LibEof(c)
    \/ ConnectionLost(c)

SpecLib == InitLib /\ [][NextLib]_vars
----------------------------------------------------------------------------
\* Properties of the client operations.

\* The operations of the library, and those of them and of neighborhood.py
\* that send recovery or magicboot.
LibOps ==
  {"recovery", "magic_boot", "get_file_attributes", "dirlist", "mkdir", "rename",
   "delete", "send_file", "get_file"}
BootOps ==
  {"recovery", "magic_boot", "send_xbdm_command recovery", "send_xbdm_command magicboot"}

\* The operation of connection c has ended: it returned or it raised.
Ended(c) == client[c].op # "none" /\ client[c].ret # "running"

\* The client of connection c wrote BYE last, read the line 200- bye last,
\* and closed its socket.
ByeHandshake(c) ==
  /\ endswith(client[c].sent, XBDM_BYE)
  /\ client[c].last = ByeLine
  /\ client[c].sock = "closed"

\* C17: every operation of the client library other than recovery and
\* magicboot that has ended, on whatever reply code, has written BYE, has
\* read the reply 200- bye and has closed its connection; every operation
\* that has connected did so on a connection of its own.
C17_OperationEndsWithBye ==
  \A c \in Conns :
    /\ client[c].op \in LibOps /\ client[c].pc > 0 => conn[c] # "listening"
    /\ client[c].op \in LibOps \ BootOps /\ Ended(c) => ByeHandshake(c)

\* The operations that upload a file.
UploadOps == {"send_file", "send_xbdm_upload_file"}

\* C18: an upload against the server never fails an expectation, and when it
\* has returned the client has sent the command, the LENGTH bytes of the
\* file and BYE, has read all the server wrote (the acknowledgement with its
\* 4 zero bytes included), has done the BYE handshake, and the server holds
\* the file.
C18_UploadCompletes ==
  \A c \in Conns :
    client[c].op \in UploadOps =>
      /\ client[c].ret # "raised"
      /\ client[c].ret = "returned" =>
           /\ client[c].sent = Program(client[c].op)[2].data \o LocalFile \o XBDM_BYE
           /\ client[c].rd = Len(out[c])
           /\ ByeHandshake(c)
           /\ \E p \in DOMAIN fs : fs[p] = LocalFile

\* C19: every call read(n) of an operation returns the next n bytes of the
\* stream, whatever the chunks in which they arrive, and consumes these n
\* bytes and no more.
C19_ReadReturnsExactly ==
  [][\A c \in Conns :
       Running(c) /\ Ins(c).i = "read" /\ client'[c] # client[c] =>
         /\ client'[c].buf
              = Some(SubSeq(out[c], client[c].rd + 1, client[c].rd + Ins(c).n))
         /\ Len(client'[c].buf.v) = Ins(c).n
         /\ client'[c].rd = client[c].rd + Ins(c).n]_vars

\* C20: an operation that sends recovery or magicboot never writes BYE in
\* any letter case; when its socket is closed it has written the command
\* line and nothing else, and it does not return with the socket open.
C20_BootOpsCloseWithoutBye ==
  \A c \in Conns :
    client[c].op \in BootOps =>
      /\ Find(lower(client[c].sent), lower(XBDM_BYE)) = 0
      /\ client[c].sock = "closed" => client[c].sent = Program(client[c].op)[2].data
      /\ client[c].ret = "returned" => client[c].sock = "closed"

\* recovery and magic_boot of the library, and send_xbdm_command of
\* neighborhood.py for one of them, have each returned on some connection.
C20_Witness ==
  /\ \E c \in Conns :
       /\ client[c].op \in {"recovery", "magic_boot"}
       /\ client[c].ret = "returned"
       /\ client[c].sock = "closed"
       /\ client[c].sent = Program(client[c].op)[2].data
       /\ conn[c] = "lost"

----------------------------------------------------------------------------
\* The message object of the client library on its own: SpecMsg.  A program
\* builds an XBDMCommand with its setters, asks it for a parameter, emits it
\* with get_output and parses the line it emitted; or it receives a line
\* from the wire, parses it and emits the message again.

\* The number of setter calls of one message.
MaxCalls == 3

\* The verbs, status codes, keys and flags the program sets.
MsgNames == {<<97>>}                      \* "a"
MsgCodes == {200}
MsgKeys == {<<107>>, <<75>>}              \* "k", "K"
MsgFlags == {<<102>>}                     \* "f"

\* 0xFFFFFFFF and 2^64 - 1 as Python ints.
DwordMax == [i \in 1..8 |-> 15]
QwordMax == [i \in 1..16 |-> 15]

\* The values the program sets, each of the type it declares: the strings
\* "12", "x y", "a\b" and "ab", and the ints 0, 3, 0x1F, 0xA0, 0xFFFFFFFF,
\* 0x100000000, 2^64 - 1 and 5.
MsgValues ==
  { <<(<<49, 50>>), "QUOTED_STRING">>, <<(<<120, 32, 121>>), "QUOTED_STRING">>,
    <<(<<97, 92, 98>>), "QUOTED_STRING">>, <<(<<97, 98>>), "STRING">>,
    <<PyInt(0), "DWORD">>, <<PyInt(3), "DWORD">>, <<PyInt(31), "DWORD">>,
    <<PyInt(160), "DWORD">>, <<DwordMax, "DWORD">>,
    <<PyInt(0), "QWORD">>, <<PyInt(31), "QWORD">>, <<(<<1>> \o PyInt(0) \o [i \in 1..8 |-> 0]), "QWORD">>,
    <<QwordMax, "QWORD">>, <<PyInt(5), "INTEGER">> }

\* A line with one parameter written as k="s".
QuotedParamLine(s) == <<97, 32, 107, 61, 34>> \o s \o <<34>> \o CRLF

\* The strings between the quotes: "12", "b c", "a\b", "x", "" and "0x1".
QuotedStrings ==
  { <<49, 50>>, <<98, 32, 99>>, <<97, 92, 98>>, <<120>>, <<>>, <<48, 120, 49>> }

\* The lines received from the wire: a k="s" for each of these strings, and
\*   a  k=1   f            A K=v          a k=0x00000003     a k=0x1F
\*   200- OK               a k=-5         200- k=0x3 f
\*   name="f" sizehi=0x0 sizelo=0x3 directory
WireLines ==
  { QuotedParamLine(s) : s \in QuotedStrings } \cup
  { <<97, 32, 32, 107, 61, 49, 32, 32, 32, 102>> \o CRLF,
    <<65, 32, 75, 61, 118>> \o CRLF,
    <<97, 32, 107, 61, 48, 120, 48, 48, 48, 48, 48, 48, 48, 51>> \o CRLF,
    <<97, 32, 107, 61, 48, 120, 49, 70>> \o CRLF,
    <<50, 48, 48, 45, 32, 79, 75>> \o CRLF,
    <<97, 32, 107, 61, 45, 53>> \o CRLF,
    <<50, 48, 48, 45, 32, 107, 61, 48, 120, 51, 32, 102>> \o CRLF,
    <<110, 97, 109, 101, 61, 34, 102, 34, 32, 115, 105, 122, 101, 104, 105, 61, 48, 120, 48, 32,
      115, 105, 122, 101, 108, 111, 61, 48, 120, 51, 32, 100, 105, 114, 101, 99, 116, 111, 114, 121>> \o CRLF }

\* A fresh message to build, or a line from the wire to parse.
InitMsg ==
  /\ InitServer([c \in Conns |-> IdleScript], <<>>, [c \in Conns |-> NoClient])
  /\ \/ msg = [NoMsg EXCEPT !.pc = "build"]
     \/ \E line \in WireLines : msg = [NoMsg EXCEPT !.pc = "wire", !.out.v = line]
  /\ crc = NoCrc
  /\ lex = NoLex

Building == msg.pc = "build" /\ msg.calls < MaxCalls

\* cmd.set_name(name)
MsgSetName ==
  /\ Building
  /\ \E name \in MsgNames :
       msg' = [msg EXCEPT !.m = lib_set_name(@, name), !.calls = @ + 1]
  /\ UNCHANGED <<conn, regs, out, fs, inbound, todo, seen, script, client, crc, lex>>

\* cmd.set_code(code)
MsgSetCode ==
  /\ Building
  /\ \E code \in MsgCodes :
       msg' = [msg EXCEPT !.m = lib_set_code(@, code), !.calls = @ + 1]
  /\ UNCHANGED <<conn, regs, out, fs, inbound, todo, seen, script, client, crc, lex>>

\* cmd.set_param(key, value, t)
MsgSetParam ==
  /\ Building
  /\ \E key \in MsgKeys, vt \in MsgValues :
       msg' = [msg EXCEPT !.m = lib_set_param(@, key, vt[1], vt[2]), !.calls = @ + 1]
  /\ UNCHANGED <<conn, regs, out, fs, inbound, todo, seen, script, client, crc, lex>>

\* cmd.set_flag(key)
MsgSetFlag ==
  /\ Building
  /\ \E key \in MsgFlags :
       msg' = [msg EXCEPT !.m = lib_set_flag(@, key), !.calls = @ + 1]
  /\ UNCHANGED <<conn, regs, out, fs, inbound, todo, seen, script, client, crc, lex>>

\* cmd.get_param(key, lc_check)
MsgGetParam ==
  /\ msg.pc = "build"
  /\ \E key \in MsgKeys, lc_check \in BOOLEAN :
       msg' = [msg EXCEPT !.pc = "asked", !.asked = key, !.lc_check = lc_check,
                          !.got = lib_get_param(msg.m, key, lc_check)]
  /\ UNCHANGED <<conn, regs, out, fs, inbound, todo, seen, script, client, crc, lex>>

\* cmd.get_output(True)
MsgGetOutput ==
  /\ msg.pc = "build"
  /\ msg' = [msg EXCEPT !.pc = "emitted", !.out = lib_get_output(msg.m)]
  /\ UNCHANGED <<conn, regs, out, fs, inbound, todo, seen, script, client, crc, lex>>

\* XBDMCommand.parse of the line that was emitted or received.
MsgParse ==
  /\ msg.pc \in {"emitted", "wire"}
  /\ ~msg.out.err
  /\ msg' = [msg EXCEPT !.pc = IF msg.pc = "wire" THEN "received" ELSE "parsed",
                        !.back = lib_parse(msg.out.v)]
  /\ UNCHANGED <<conn, regs, out, fs, inbound, todo, seen, script, client, crc, lex>>

\* get_output(True) of the message that parse returned.
MsgEmitAgain ==
  /\ msg.pc \in {"parsed", "received"}
  /\ ~msg.back.err
  /\ msg' = [msg EXCEPT !.pc = IF msg.pc = "received" THEN "reemitted" ELSE "done",
                        !.again = lib_get_output(msg.back.cmd)]
  /\ UNCHANGED <<conn, regs, out, fs, inbound, todo, seen, script, client, crc, lex>>

NextMsg ==
  \/ MsgSetName
  \/ MsgSetCode
  \/ MsgSetParam
  \/ MsgSetFlag
  \/ MsgGetParam
  \/ MsgGetOutput
  \/ MsgParse
  \/ MsgEmitAgain

SpecMsg == InitMsg /\ [][NextMsg]_vars

----------------------------------------------------------------------------
\* Properties of the message object.

\* A message built with set_name or with set_code: it has one of the two.
Built(m) == m.name.some # (m.code # 0)

\* The types whose values are ints.
IntTypes == {"DWORD", "QWORD", "INTEGER"}

\* Two parameters with the same key up to letter case and the same value, an
\* int or a string, whatever their types.
SameParam(a, b) ==
  /\ lower(a.key) = lower(b.key)
  /\ a.v = b.v
  /\ (a.t \in IntTypes) = (b.t \in IntTypes)

\* Two messages with the same verb up to letter case, the same code, the same
\* parameters in the same order and the same flags in the same order.
SameMessage(a, b) ==
  /\ a.name.some = b.name.some
  /\ lower(a.name.v) = lower(b.name.v)
  /\ a.code = b.code
  /\ Len(a.args) = Len(b.args)
  /\ \A i \in 1..Min(Len(a.args), Len(b.args)) : SameParam(a.args[i], b.args[i])
  /\ a.flags = b.flags

\* C21: for every message built with the message API (a verb or a status
\* code, parameters with values of their declared types, flags), the line
\* that get_output emits parses, and parse gives back the message: the same
\* verb or status code, the same keys in the same order, the same values and
\* the same flags, up to letter case of verb and keys and up to the types.
C21_ParseOfEmitIsMessage ==
  msg.pc \in {"parsed", "done"} /\ Built(msg.m) =>
    ~msg.back.err /\ SameMessage(msg.back.cmd, msg.m)

\* The fields of a line: what its whitespace separates, a quoted part being
\* kept whole with its quotes.
RECURSIVE wire_fields(_, _, _, _, _)
wire_fields(s, i, inq, cur, acc) ==
  IF i > Len(s) THEN (IF cur = <<>> THEN acc ELSE Append(acc, cur))
  ELSE IF s[i] \in ShWhitespace /\ ~inq
  THEN wire_fields(s, i + 1, FALSE, <<>>, IF cur = <<>> THEN acc ELSE Append(acc, cur))
  ELSE wire_fields(s, i + 1, IF s[i] = 34 THEN ~inq ELSE inq, Append(cur, s[i]), acc)

WireFields(line) == wire_fields(line, 1, FALSE, <<>>, <<>>)

\* A field with its key, the part before "=", in lower case.
NormalField(f) ==
  IF IndexFrom(f, 61, 1) = 0 THEN f
  ELSE lower(SubSeq(f, 1, IndexFrom(f, 61, 1) - 1)) \o SubSeq(f, IndexFrom(f, 61, 1), Len(f))

\* The normal form of a line: its fields, keys in lower case, one space
\* between them.
Normalized(line) ==
  join(<<32>>, [i \in 1..Len(WireFields(line)) |-> NormalField(WireFields(line)[i])]) \o CRLF

\* A line that starts with a verb or a status, not with a parameter.
HasHead(line) == WireFields(line) # <<>> /\ IndexFrom(WireFields(line)[1], 61, 1) = 0

\* C22: every legal line from the wire (a verb or a status, then parameters
\* and flags) parses, and get_output of the parsed message is the line in
\* its normal form: keys in lower case and single spaces, nothing else
\* changed.
C22_EmitOfParseIsLine ==
  msg.pc \in {"received", "reemitted"} /\ HasHead(msg.out.v) =>
    /\ ~msg.back.err
    /\ msg.pc = "reemitted" => msg.again = [err |-> FALSE, v |-> Normalized(msg.out.v)]

\* The types emitted in hexadecimal, their prefixes and their widths in
\* hexadecimal digits.
WordTypes == {"DWORD", "QWORD"}
WordPrefix(t) == IF t = "DWORD" THEN <<48, 120>> ELSE <<48, 113>>
WordDigits(t) == IF t = "DWORD" THEN 8 ELSE 16

\* A parameter whose value is in 0..2^32-1 for a DWORD, 0..2^64-1 for a QWORD.
InRange(e) == ~IsNegative(e.v) /\ Len(e.v) <= WordDigits(e.t)

\* The prefix and the upper case hexadecimal digits of the value, without
\* leading zeros, one 0 for the value 0.
WordText(e) ==
  WordPrefix(e.t) \o
    (IF e.v = <<>> THEN <<48>>
     ELSE [i \in 1..Len(e.v) |-> IF e.v[i] < 10 THEN 48 + e.v[i] ELSE 55 + e.v[i]])

\* The field of the emitted line that holds parameter i of the message.
EmittedParam(i) ==
  IF i + (IF msg.m.name.some \/ msg.m.code # 0 THEN 1 ELSE 0) <= Len(WireFields(msg.out.v))
  THEN WireFields(msg.out.v)[i + (IF msg.m.name.some \/ msg.m.code # 0 THEN 1 ELSE 0)]
  ELSE <<>>

\* C23: a DWORD in 0..2^32-1 and a QWORD in 0..2^64-1 are emitted as 0x or
\* 0q and the upper case hexadecimal digits of the value without leading
\* zeros, 0x0 or 0q0 for 0; and parse of the emitted line gives the
\* parameter back with the same value and the same type.
C23_WordsRoundTrip ==
  \A i \in 1..Len(msg.m.args) :
    msg.m.args[i].t \in WordTypes /\ InRange(msg.m.args[i]) =>
      /\ msg.pc \in {"emitted", "parsed", "done"} =>
           /\ ~msg.out.err
           /\ EmittedParam(i) = msg.m.args[i].key \o <<61>> \o WordText(msg.m.args[i])
      /\ msg.pc \in {"parsed", "done"} =>
           /\ ~msg.back.err
           /\ Len(msg.back.cmd.args) >= i
           /\ msg.back.cmd.args[i] = msg.m.args[i]

\* The message a k=0xFFFFFFFF was emitted and parsed, and the parameter came
\* back as the DWORD 0xFFFFFFFF.
C23_Witness ==
  /\ msg.pc = "parsed"
  /\ msg.m.args = <<[key |-> <<107>>, v |-> DwordMax, t |-> "DWORD"]>>
  /\ msg.out.v = <<97, 32, 107, 61, 48, 120, 70, 70, 70, 70, 70, 70, 70, 70, 13, 10>>
  /\ msg.back.cmd.args = msg.m.args

\* C24: a parameter written on the wire as k="s", s without a double quote,
\* with or without spaces, backslashes or digits only, is parsed to the
\* value s, every character kept, with the type QUOTED_STRING.
C24_QuotedStringVerbatim ==
  \A s \in QuotedStrings :
    msg.pc \in {"received", "reemitted"} /\ msg.out.v = QuotedParamLine(s) =>
      /\ ~msg.back.err
      /\ msg.back.cmd.args = <<[key |-> <<107>>, v |-> s, t |-> "QUOTED_STRING"]>>

\* C25: a message that parse returned, and a fresh message after one or more
\* calls of set_name and set_code and nothing else, has a verb or a status
\* code that is not 0, never both and never neither.
C25_VerbOrStatus ==
  /\ msg.pc \in {"parsed", "done", "received", "reemitted"} /\ ~msg.back.err => Built(msg.back.cmd)
  /\ msg.pc = "build" /\ msg.calls >= 1 /\ msg.m.args = <<>> /\ msg.m.flags = <<>> => Built(msg.m)

\* C26: the keys of the message object are compared without regard to
\* letter case: no two parameters have keys that differ in letter case only,
\* get_param of a key gives the value of the parameter with that key in
\* whatever letter case it was set, and get_output emits each key in lower
\* case, in the order of insertion.
C26_KeysCaseInsensitive ==
  /\ \A i, j \in 1..Len(msg.m.args) :
       lower(msg.m.args[i].key) = lower(msg.m.args[j].key) => i = j
  /\ msg.pc = "asked" =>
       \A i \in 1..Len(msg.m.args) :
         lower(msg.m.args[i].key) = lower(msg.asked) => msg.got = Some(msg.m.args[i].v)
  /\ msg.pc = "emitted" /\ ~msg.out.err =>
       \A i \in 1..Len(msg.m.args) :
         startswith(EmittedParam(i), lower(msg.m.args[i].key) \o <<61>>)

----------------------------------------------------------------------------
\* Properties of the command branch of the server.

\* The text s with the case of its letters changed by f.
Recased(s, f) ==
  [i \in 1..Len(s) |->
     IF f = "lower" THEN LowerChar(s[i])
     ELSE IF f = "upper" THEN (IF s[i] \in 97..122 THEN s[i] - 32 ELSE s[i])
     ELSE IF s[i] \in 97..122 THEN s[i] - 32 ELSE LowerChar(s[i])]

\* The line s, from position i, with the letters of its verb, of its
\* parameter keys and of its flags changed by f: of each token of the lexer,
\* the text before the first "=", quote or comment character is changed, and
\* the rest of the token and the whitespace stay as they are.
RECURSIVE recase(_, _, _, _)
recase(s, i, f, acc) ==
  LET Rest(from) == acc \o SubSeq(s, from, Len(s))
      Token(j, e, t) ==
        IF t.err \/ t.none THEN Rest(i)
        ELSE IF e = 0 THEN acc \o SubSeq(s, i, j - 1) \o Recased(SubSeq(s, j, Len(s)), f)
        ELSE recase(s, t.i, f,
                    acc \o SubSeq(s, i, j - 1) \o Recased(SubSeq(s, j, e - 1), f)
                        \o SubSeq(s, e, t.i - 1))
      From(j) ==
        IF j = 0 \/ s[j] \in ShCommenters THEN Rest(i)
        ELSE Token(j, FirstIn(s, j, ShWhitespace \cup ShQuotes \cup ShCommenters \cup {61}),
                   read_token(s, j, 0, <<>>, FALSE))
  IN IF i > Len(s) THEN acc ELSE From(FirstNotIn(s, i, ShWhitespace))

\* The line in lower case, in upper case, and with the case of every letter
\* changed.
CaseVariants(d) == { recase(d, 1, f, <<>>) : f \in {"lower", "upper", "swap"} }

\* The step left connection c as the callback that returned s leaves it.
LeavesAs(c, s) ==
  /\ out'[c] = s.out
  /\ fs' = s.fs
  /\ Registers(c)' = <<s.receiving_file, s.file_cksm, s.receiving_files, s.num_files_total,
                       s.num_files_left, s.file_data_left, s.receiving_type, s.file_path,
                       s.file_handle>>
  /\ (conn'[c] = "closing") = (s.closing \/ s.raised)

\* C27: a read in Command mode that is one command line leaves the reply,
\* the files and the session as the same line would with its verb, its
\* parameter keys and its flags in any other letter case.
C27_CaseInsensitive ==
  [][\A c \in Conns :
       ReadsLine(c) =>
         \A d \in {Delivered(c)} :
           \A v \in CaseVariants(d) : LeavesAs(c, data_received(Session(c), v))]_vars

\* The line getfile NAME="g", its key in upper case, was answered with the
\* file g of the sandbox.
C27_Witness ==
  /\ script[1] = CommandScript(5)
  /\ startswith(out[1], Greeting \o BinaryFollowsLine \o LE32Bytes(BodyLen))
  /\ fs # <<>>

----------------------------------------------------------------------------
\* Virtual paths that point out of the sandbox: SpecPath.  A client sends
\* one command with a path, and the body of the file after a sendfile, to a
\* server whose host holds the file /y outside the sandbox.

\* The command lines of the clients, without their line ending and without
\* the digits of LENGTH.
\*  1  sendfile NAME="\\x" LENGTH=0x
\*  2  sendfile NAME="..\..\x" LENGTH=0x
\*  3  sendfile NAME="E:\f1" LENGTH=0x
\*  4  mkdir NAME="/x"
\*  5  mkdir NAME="..\..\..\..\m"
\*  6  mkdir NAME="d"
\*  7  delete NAME="/y"
SendPathLines ==
  <<<<115, 101, 110, 100, 102, 105, 108, 101, 32, 78, 65, 77, 69, 61, 34, 92, 92, 120, 34, 32,
      76, 69, 78, 71, 84, 72, 61, 48, 120>>,
    <<115, 101, 110, 100, 102, 105, 108, 101, 32, 78, 65, 77, 69, 61, 34, 46, 46, 92, 46, 46, 92,
      120, 34, 32, 76, 69, 78, 71, 84, 72, 61, 48, 120>>,
    <<115, 101, 110, 100, 102, 105, 108, 101, 32, 78, 65, 77, 69, 61, 34, 69, 58, 92, 102, 49, 34,
      32, 76, 69, 78, 71, 84, 72, 61, 48, 120>>>>

PathLines ==
  <<<<109, 107, 100, 105, 114, 32, 78, 65, 77, 69, 61, 34, 47, 120, 34>>,
    <<109, 107, 100, 105, 114, 32, 78, 65, 77, 69, 61, 34, 46, 46, 92, 46, 46, 92, 46, 46, 92,
      46, 46, 92, 109, 34>>,
    <<109, 107, 100, 105, 114, 32, 78, 65, 77, 69, 61, 34, 100, 34>>,
    <<100, 101, 108, 101, 116, 101, 32, 78, 65, 77, 69, 61, 34, 47, 121, 34>>>>

PathScripts ==
  { [kind |-> "path",
     phases |-> <<Line(SendPathLines[i] \o HexStr(BodyLen)), Block(Body(BodyLen, 65)), Line(C_bye)>>,
     files |-> <<>>] : i \in 1..Len(SendPathLines) }
  \cup
  { [kind |-> "path", phases |-> <<Line(PathLines[i]), Line(C_bye)>>, files |-> <<>>] :
      i \in 1..Len(PathLines) }

\* The host: the sandbox and, outside of it, the file /y of one byte.
HostFiles == WithFile(Sandbox, <<47, 121>>, <<121>>)

InitPath ==
  \E sc \in PathScripts :
    InitIn([c \in Conns |-> IF c = 1 THEN sc ELSE IdleScript], HostFiles,
           [c \in Conns |-> NoClient])

SpecPath == InitPath /\ [][Next]_vars

\* The path the host resolves p to: a component ".." leaves the directory
\* before it; the slash that ends the entry of a directory is kept.
RECURSIVE resolve(_, _)
resolve(cs, acc) ==
  IF cs = <<>> THEN acc
  ELSE IF cs[1] = <<>> \/ cs[1] = <<46>> THEN resolve(Tail(cs), acc)
  ELSE IF cs[1] = <<46, 46>>
  THEN resolve(Tail(cs), IF acc = <<>> THEN acc ELSE SubSeq(acc, 1, Len(acc) - 1))
  ELSE resolve(Tail(cs), Append(acc, cs[1]))

Resolved(p) ==
  <<47>> \o JoinSlash(resolve(Components(p, 1), <<>>))
    \o (IF p[Len(p)] = 47 /\ resolve(Components(p, 1), <<>>) # <<>> THEN <<47>> ELSE <<>>)

\* The sandbox root: the directory DEVICES of the working directory.
SandboxRoot == absolute(XBDM_DIR)

\* The entry p lies in the sandbox root, or it is the working directory or a
\* directory above it, which a step can only find, not make.
InSandbox(p) ==
  \/ startswith(Resolved(p), Slashed(SandboxRoot))
  \/ (p[Len(p)] = 47 /\ startswith(Slashed(Cwd), Resolved(p)))

\* What the step creates, removes or changes in the file system.
Touched ==
  { p \in DOMAIN fs \cup DOMAIN fs' :
      p \notin DOMAIN fs \/ p \notin DOMAIN fs' \/ fs[p] # fs'[p] }

\* C28: whatever virtual path a command names, with ".." components, with a
\* doubled leading backslash or as an absolute path of the host, no step of
\* the server creates, writes or deletes a file or a directory outside the
\* sandbox root.
C28_StaysInSandbox == [][\A p \in Touched : InSandbox(p)]_vars

----------------------------------------------------------------------------
\* Bodies that look like something else: SpecChunk.  A client uploads one
\* file of 12 bytes whose body is the 12 bytes that data_received echoes in
\* Command mode, or a text that ends with a line ending; the body reaches
\* the server in any segments.

\* abcdefghij and a line ending.
LineBody == Body(10, 97) \o CRLF

ChunkBodies == {HANDSHAKE, LineBody}

\* sendfile NAME="E:\f1" LENGTH=0xC, the body, bye.
SendFileOf(body) ==
  [kind |-> "chunk",
   phases |-> <<Line(C_sendfile_pre \o DecStr(1) \o C_length_pre \o HexStr(Len(body))),
                Block(body), Line(C_bye)>>,
   files |-> <<[path |-> xbdm_to_device_path(N_sendfile_pre \o DecStr(1)), data |-> body]>>]

\* xbupdate!sysfileupd name=\Device\Flash\u1 size=0xC, the body, bye.
XbUpdateOf(body) ==
  [kind |-> "chunk",
   phases |-> <<Line(C_sysfileupd_pre \o DecStr(1) \o C_size_pre \o HexStr(Len(body)) \o C_crc),
                Block(body), Line(C_bye)>>,
   files |-> <<[path |-> xbdm_to_device_path(N_sysfileupd_pre \o DecStr(1)), data |-> body]>>]

InitChunk ==
  \E sc \in {SendFileOf(body) : body \in ChunkBodies} \cup {XbUpdateOf(body) : body \in ChunkBodies} :
    InitWith([c \in Conns |-> IF c = 1 THEN sc ELSE IdleScript])

SpecChunk == InitChunk /\ [][Next]_vars

\* The file that the session of c writes to, and what it holds before the
\* step: nothing when the step is the one that opens it.
SinkPath(c) == IF file_handle[c].open THEN file_handle[c].path ELSE file_path[c]
SinkBefore(c) == IF file_handle[c].open THEN fs[file_handle[c].path] ELSE <<>>

\* C29: in a single-file upload, every read that does not exceed the bytes
\* still to come is appended to the sink and counted, whatever its content;
\* the read that completes the body appends the terminator to the output,
\* and every other read appends nothing.
C29_BodyGoesToSink ==
  [][\A c \in Conns :
       (Reads(c) /\ receiving_file[c] /\ Len(Delivered(c)) <= file_data_left[c]) =>
         /\ Written(c) = IF Len(Delivered(c)) = file_data_left[c]
                         THEN Terminator(receiving_type[c]) ELSE <<>>
         /\ file_data_left'[c] = file_data_left[c] - Len(Delivered(c))
         /\ SinkPath(c) \in DOMAIN fs'
         /\ fs'[SinkPath(c)] = SinkBefore(c) \o Delivered(c)]_vars

----------------------------------------------------------------------------
\* Several command lines in one read.

\* The verbs that start an upload.
UploadVerbs == {V_sendfile, V_sendvfile, V_sysfileupd}

\* d is two or more complete lines, each a command that starts no upload.
ManyLines(d) ==
  /\ endswith(d, CRLF)
  /\ Len(SplitLines(d)) >= 2
  /\ \A i \in 1..Len(SplitLines(d)) :
       /\ WellFormed(SplitLines(d)[i] \o CRLF)
       /\ VerbOf(SplitLines(d)[i] \o CRLF) \notin UploadVerbs

\* The session after the lines ls were read one at a time, each answered
\* before the next is read, up to the line that closes the connection.
RECURSIVE LineByLine(_, _)
LineByLine(s, ls) ==
  IF ls = <<>> \/ s.closing \/ s.raised THEN s
  ELSE LineByLine(data_received(s, ls[1] \o CRLF), Tail(ls))

\* C30: a read in Command mode that holds two or more complete command
\* lines leaves the output, the files and the session as reading the lines
\* one at a time does: each line is its own command, answered in order, and
\* no token of a later line is a flag or a parameter of an earlier one.
C30_OneLineAtATime ==
  [][\A c \in Conns :
       (Reads(c) /\ CommandMode(c)) =>
         \A d \in {Delivered(c)} :
           ManyLines(d) => LeavesAs(c, LineByLine(Session(c), SplitLines(d)))]_vars

----------------------------------------------------------------------------
\* The xbupdate!* commands: SpecUpd.  A client sends the 12 bytes that open
\* its session, one xbupdate!* command line, then bye, without waiting for
\* the server.

UpdScript(verb) ==
  [kind |-> "update", phases |-> <<Block(HANDSHAKE), Line(verb), Line(C_bye)>>,
   files |-> <<>>]

InitUpd ==
  \E verb \in XbOkVerbs \cup XbLineVerbs :
    InitWith([c \in Conns |-> IF c = 1 THEN UpdScript(verb) ELSE IdleScript])

SpecUpd == InitUpd /\ [][Next]_vars

\* C31: a read in Command mode that is exactly the 12 bytes
\* 02 04 05 B4 01 03 03 08 01 01 04 02 appends these 12 bytes to the output
\* and nothing else, and leaves every register of the session, the files and
\* the connection as they were.
C31_HandshakeEchoed ==
  [][\A c \in Conns :
       (Reads(c) /\ CommandMode(c) /\ Delivered(c) = HANDSHAKE) =>
         /\ Written(c) = HANDSHAKE
         /\ Registers(c)' = Registers(c)
         /\ fs' = fs
         /\ conn'[c] = "open"]_vars

\* The 12 bytes were read in one piece right after the greeting, and echoed.
C31_Witness ==
  /\ script[1].kind = "update"
  /\ Consumed(1) = Len(HANDSHAKE)
  /\ out[1] = Greeting \o HANDSHAKE
  /\ CommandMode(1)

\* w starts with three digits and a hyphen.
StatusHead(w) ==
  /\ Len(w) >= 4
  /\ \A i \in 1..3 : IsDigit(w[i])
  /\ w[4] = 45

\* C32: whatever a read of one complete command line in Command mode makes
\* the server write starts with a line that opens with a three-digit status
\* code and a hyphen and closes with a line ending.
C32_ReplyStartsWithStatus ==
  [][\A c \in Conns :
       (ReadsLine(c) /\ Written(c) # <<>>) =>
         StatusHead(Written(c)) /\ Find(Written(c), CRLF) # 0]_vars

----------------------------------------------------------------------------
\* The checksum of an upload: SpecCrc.  system_file_update makes a
\* CRC32(0xFFFFFFFF, 0xEDB88320), copies the local file to it in chunks,
\* one call of write for each chunk and none for an empty file, and sends
\* its value as the parameter crc.

\* The longest local file.
MaxData == 5

\* The bytes of the local files.
CrcBytes == {0, 49, 255}

CrcInputs == UNION {[1..n -> CrcBytes] : n \in 0..MaxData}

InitCrc ==
  /\ InitServer([c \in Conns |-> IdleScript], <<>>, [c \in Conns |-> NoClient])
  /\ msg = NoMsg
  /\ lex = NoLex
  /\ \E data \in CrcInputs : crc = [NoCrc EXCEPT !.pc = "feed", !.data = data, !.rest = data]

\* copyfileobj(lf, c, XBDM_BUFF_SIZE): c.write of the next chunk.
CrcWrite ==
  /\ crc.pc = "feed"
  /\ \E k \in 1..Len(crc.rest) :
       crc' = [crc EXCEPT !.obj = process(@, Take(crc.rest, k)), !.rest = Drop(@, k)]
  /\ UNCHANGED <<conn, regs, out, fs, inbound, todo, seen, script, client, msg, lex>>

\* cmd.set_param("crc", c.value, XBDMType.DWORD), as get_output writes it.
CrcSend ==
  /\ crc.pc = "feed"
  /\ crc.rest = <<>>
  /\ crc' = [crc EXCEPT !.pc = "sent", !.sent = value_to_output(crc.obj.value, "DWORD")]
  /\ UNCHANGED <<conn, regs, out, fs, inbound, todo, seen, script, client, msg, lex>>

NextCrc == CrcWrite \/ CrcSend

SpecCrc == InitCrc /\ [][NextCrc]_vars

\* The reflected CRC-32 of polynomial 0xEDB88320, bit by bit: the register
\* after n more shifts, after one more byte, after the bytes of data.
RECURSIVE ShiftBits(_, _)
ShiftBits(reg, n) ==
  IF n = 0 THEN reg
  ELSE CHOOSE r \in {ShiftBits(v, n - 1) :
                       v \in {IF py_odd(reg) THEN py_xor(py_shr1(reg), CRC_POLY)
                              ELSE py_shr1(reg)}} : TRUE

RECURSIVE Reflected(_, _)
Reflected(reg, data) ==
  IF data = <<>> THEN reg
  ELSE CHOOSE r \in {Reflected(v, Tail(data)) :
                       v \in {ShiftBits(py_xor(reg, Nibbles(data[1])), 8)}} : TRUE

\* The checksum of data: initial value 0xFFFFFFFF, no final XOR.
Reference(data) == Reflected(MASK32, data)

\* C33: when the whole file was written to the CRC32 object, in whatever
\* chunks, its value is the reflected CRC-32 of the file with initial value
\* 0xFFFFFFFF and no final XOR, it fits in 32 bits, and it is the value sent
\* as crc.
C33_ChunkedCrcIsReference ==
  crc.pc = "sent" =>
    /\ crc.obj.value = Reference(crc.data)
    /\ Len(crc.obj.value) <= 8
    /\ ~crc.sent.err
    /\ crc.sent.v = value_to_output(Reference(crc.data), "DWORD").v

\* C34: the read that completes an xbupdate!sysfileupd upload is answered
\* with 200- OK when the checksum of the bytes received is the crc of the
\* command, and with a reply of status 405 when it is not.
C34_CrcVerified ==
  [][\A c \in Conns :
       (Reads(c) /\ receiving_file[c] /\ receiving_type[c] = "XBUPDATE_SINGLE"
          /\ ~receiving_file'[c]) =>
         IF SinkPath(c) \in DOMAIN fs' /\ Reference(fs'[SinkPath(c)]) = Nibbles(file_cksm[c])
         THEN Written(c) = OkLine
         ELSE startswith(Written(c), STATUS_405)]_vars

----------------------------------------------------------------------------
\* The two lexers on one line: SpecLex.  A line is handed to the XBDMShlex
\* of the server and to the XBDMShlex of the library, and each makes its
\* list of tokens.

\* The longest line.
MaxLine == 4

\* The characters of the lines: a ' # \ space "
LexChars == {97, 39, 35, 92, 32, 34}

LexLines == UNION {[1..n -> LexChars] : n \in 0..MaxLine}

InitLex ==
  /\ InitServer([c \in Conns |-> IdleScript], <<>>, [c \in Conns |-> NoClient])
  /\ msg = NoMsg
  /\ crc = NoCrc
  /\ \E line \in LexLines : lex = [NoLex EXCEPT !.pc = "line", !.line = line]

\* list(XBDMShlex(line)) in emulator.py
LexServer ==
  /\ lex.pc \in {"line", "lib"}
  /\ lex' = [lex EXCEPT !.pc = IF @ = "line" THEN "server" ELSE "both",
                        !.server = shlex_list(lex.line, 1, <<>>)]
  /\ UNCHANGED <<conn, regs, out, fs, inbound, todo, seen, script, client, msg, crc>>

\* list(XBDMShlex(line)) in xbdm_common.py
LexLib ==
  /\ lex.pc \in {"line", "server"}
  /\ lex' = [lex EXCEPT !.pc = IF @ = "line" THEN "lib" ELSE "both",
                        !.lib = lib_shlex_list(lex.line, 1, <<>>)]
  /\ UNCHANGED <<conn, regs, out, fs, inbound, todo, seen, script, client, msg, crc>>

NextLex == LexServer \/ LexLib

SpecLex == InitLex /\ [][NextLex]_vars

\* The runs of characters of s from index i that hold no white space.
RECURSIVE Words(_, _)
Words(s, i) ==
  LET j == FirstNotIn(s, i, ShWhitespace) IN
  IF j = 0 THEN <<>>
  ELSE LET k == FirstIn(s, j, ShWhitespace) IN
       IF k = 0 THEN <<SubSeq(s, j, Len(s))>>
       ELSE <<SubSeq(s, j, k - 1)>> \o Words(s, k)

\* s holds no double quote.
Unquoted(s) == \A i \in 1..Len(s) : s[i] # 34

\* C35: of a line without a double quote, each lexer makes the runs of
\* characters between white space, unchanged and all of them, whether they
\* hold ', # or \ or not; neither lexer fails on such a line.
C35_OnlyDoubleQuoteIsSpecial ==
  Unquoted(lex.line) =>
    /\ lex.pc \in {"server", "both"} =>
         ~lex.server.err /\ lex.server.toks = Words(lex.line, 1)
    /\ lex.pc \in {"lib", "both"} =>
         ~lex.lib.err /\ lex.lib.toks = Words(lex.line, 1)

----------------------------------------------------------------------------
\* The modes and the counters of a session.

\* What data_received does with a read that is not taken as a command line.
ReceiveBranches(s, raw_command) ==
  IF raw_command = HANDSHAKE THEN HandshakeEcho(s, raw_command)
  ELSE IF s.receiving_file THEN ReceiveFile(s, raw_command)
  ELSE ReceiveFiles(s, raw_command)

\* At most one receive mode, and the type of a single-file transfer exactly
\* while one is received.
OneMode(c) ==
  /\ ~(receiving_file[c] /\ receiving_files[c])
  /\ receiving_type[c] \in {"XBUPDATE_SINGLE", "SENDFILE_SINGLE"} <=> receiving_file[c]

\* C36: in every state of every session receiving_file and receiving_files
\* are not both set, and receiving_type is XBUPDATE_SINGLE or SENDFILE_SINGLE
\* exactly when receiving_file is set; and a read in a state where one of the
\* two flags is set is never parsed and dispatched as a command: it is
\* handled by the receive branches, even when it is a complete command line.
C36_OneReceiveMode ==
  /\ [](\A c \in Conns : OneMode(c))
  /\ [][\A c \in Conns :
          (Reads(c) /\ ~CommandMode(c)) =>
            \A d \in {Delivered(c)} : LeavesAs(c, ReceiveBranches(Session(c), d))]_vars

\* A single-file upload is under way, and a read that ends with a line
\* ending went to its file.
C36_Witness ==
  /\ receiving_file[1]
  /\ receiving_type[1] = "SENDFILE_SINGLE"
  /\ ~receiving_files[1]
  /\ file_handle[1].open
  /\ endswith(fs[file_handle[1].path], CRLF)

\* C37: in every state of every session the counters are within their
\* bounds: file_data_left is not negative, and num_files_left is between 0
\* and num_files_total.
C37_CountersInBounds ==
  \A c \in Conns :
    /\ file_data_left[c] >= 0
    /\ 0 <= num_files_left[c]
    /\ num_files_left[c] <= num_files_total[c]

----------------------------------------------------------------------------
\* Uploads of no bytes: SpecZero.  A client declares a file of length 0
\* with sendfile or with xbupdate!sysfileupd, sends no body, then bye.

InitZero ==
  \E sc \in {SendFileOf(<<>>), XbUpdateOf(<<>>)} :
    InitWith([c \in Conns |-> IF c = 1 THEN sc ELSE IdleScript])

SpecZero == InitZero /\ [][Next]_vars

\* The line d starts a single-file upload; the length it declares, the type
\* of the transfer and the path of the file.
StartsUpload(d) ==
  /\ WellFormed(d)
  /\ \/ VerbOf(d) = V_sendfile /\ param_exists(Parsed(d), K_length)
     \/ VerbOf(d) = V_sysfileupd /\ param_exists(Parsed(d), K_size)
DeclaredLength(d) ==
  as_int(get_param(Parsed(d), IF VerbOf(d) = V_sendfile THEN K_length ELSE K_size)).v
DeclaredType(d) == IF VerbOf(d) = V_sendfile THEN "SENDFILE_SINGLE" ELSE "XBUPDATE_SINGLE"
DeclaredPath(d) == xbdm_to_device_path(as_str(get_param(Parsed(d), K_name)))

\* C38: a read that is the command line of a single-file upload of declared
\* length 0 creates the empty file, writes the terminator of the upload and
\* leaves the session in Command mode; and the line bye that follows it is
\* answered with 200- bye, closes the connection and changes no file.
C38_EmptyUploadCompletes ==
  [][\A c \in Conns :
       /\ (ReadsLine(c) /\ StartsUpload(Delivered(c)) /\ DeclaredLength(Delivered(c)) = 0) =>
            /\ CommandMode(c)'
            /\ endswith(Written(c), Terminator(DeclaredType(Delivered(c))))
            /\ DeclaredPath(Delivered(c)) \in DOMAIN fs'
            /\ fs'[DeclaredPath(Delivered(c))] = <<>>
       /\ (Reads(c) /\ script[c].kind = "chunk" /\ UploadFile(c).data = <<>>
             /\ Delivered(c) = C_bye \o CRLF) =>
            /\ Written(c) = ByeLine
            /\ conn'[c] = "closing"
            /\ fs' = fs]_vars

----------------------------------------------------------------------------
\* The transfer registers after a transfer.

\* The registers of a transfer, file_cksm left out.
TransferRegisters(c) ==
  <<receiving_file[c], receiving_files[c], receiving_type[c], file_handle[c], file_path[c],
    file_data_left[c], num_files_left[c], num_files_total[c]>>
TransferRegistersOf(s) ==
  <<s.receiving_file, s.receiving_files, s.receiving_type, s.file_handle, s.file_path,
    s.file_data_left, s.num_files_left, s.num_files_total>>

\* The session of a connection that was just accepted, with the output and
\* the files of c.
Fresh(c) == [reset(Session(c)) EXCEPT !.out = out[c], !.fs = fs]

\* C39: a read that ends a single-file or multi-file transfer (the session was
\* in receive mode and is in Command mode after it) leaves every transfer
\* register at its initial value; and a read in a state where the transfer
\* registers have their initial values writes, changes the files, sets the
\* transfer registers and closes the connection exactly as the same read on a
\* session fresh from connection_made does.
C39_RegistersInitialAfterTransfer ==
  [][\A c \in Conns :
       /\ (Reads(c) /\ ~CommandMode(c) /\ CommandMode(c)') =>
            TransferRegisters(c)' = TransferRegistersOf(reset(Session(c)))
       /\ (Reads(c) /\ TransferRegisters(c) = TransferRegistersOf(reset(Session(c)))) =>
            \A s \in {data_received(Fresh(c), Delivered(c))} :
              /\ out'[c] = s.out
              /\ fs' = s.fs
              /\ TransferRegisters(c)' = TransferRegistersOf(s)
              /\ (conn'[c] = "closing") = (s.closing \/ s.raised)]_vars

\* A multi-file transfer has completed and the bye after it was answered as on
\* a fresh connection.
C39_Witness ==
  /\ script[1].kind = "sendvfile"
  /\ \A i \in 1..NumFiles :
       /\ script[1].files[i].path \in DOMAIN fs
       /\ fs[script[1].files[i].path] = script[1].files[i].data
  /\ endswith(out[1], BinaryFollowsLine \o Nul4(NumFiles) \o ByeLine)
  /\ TransferRegisters(1) = TransferRegistersOf(reset(Session(1)))
  /\ conn[1] = "closing"

----------------------------------------------------------------------------
\* The commands that query the sandbox.

QueryVerbs == {V_dirlist, V_getfileattributes, V_getfile, V_drivelist}

\* C40: a read in Command mode that is one complete line of dirlist,
\* getfileattributes, getfile or drivelist leaves every file and directory
\* as it was, whether the path it names exists or not.
C40_QueriesChangeNoFile ==
  [][\A c \in Conns :
       (ReadsLine(c) /\ WellFormed(Delivered(c)) /\ VerbOf(Delivered(c)) \in QueryVerbs)
         => fs' = fs]_vars
====
